---- MODULE Spec2Model ----
(***************************************************************************)
(* Model of the gateway's resilience core: the sliding-window failure-rate *)
(* circuit breaker, the bulkhead semaphore, the router's retry loop and    *)
(* the global deadline middleware.                                         *)
(*                                                                         *)
(* Durations and instants are integers (clock ticks).  The failure         *)
(* threshold, a float64 in (0,1] in the source, is kept in percent so that *)
(* failures/count >= threshold is the exact comparison                     *)
(* failures*100 >= threshold*count.                                        *)
(***************************************************************************)
EXTENDS Integers, Sequences, FiniteSets, TLC

\* ---- bounds of the model ----
MaxWindow == 3
MaxTime == 2
MaxHalfOpen == 2
MaxConcurrent == 2
NumCallers == 3
MaxRetries == 2
MaxRequests == 2
MaxReloads == 2
MaxPathLen == 3
MaxPrefixLen == 2
MaxRoutes == 2
MaxScopes == 2
MaxHops == 2
MaxRate == 3
MaxBurst == 2
NumRequests == 1
MaxBuckets == 2
MaxClock == 8
MaxUpdates == 1

WindowSizes == 1..MaxWindow
Thresholds == {50, 100}
ResetTimeouts == {1, MaxTime}
HalfOpenMaxes == {1, MaxHalfOpen}

\* ---- circuitbreaker.State ----
StateClosed == "closed"
StateOpen == "open"
StateHalfOpen == "half-open"

VARIABLES
    br,        \* the FailureRateBreaker struct
    now,       \* the wall clock read by time.Now / time.Since
    brOp,      \* history: the operation performed by the last step
    brRet,     \* history: the value returned by the last step if an Allow
    brFrom,    \* history: the breaker state before the last step
    hoGhost,   \* history: successes recorded since HalfOpen was entered
    refWindow, \* history: the most recent outcomes recorded in Closed since
               \* the window was last reset, oldest first, at most windowSize
    sem,       \* BulkheadBreaker.sem: the number of slots held, len(b.sem)
    bhPc,      \* position of each caller of BulkheadBreaker.Allow / Release
    bhRet,     \* outcome of each caller's Allow: none, full, inner, ok
    rq,        \* the request inside Router.ServeHTTP (handler goroutine);
               \* rq.failed: per backend attempt, whether it ended with
               \* 502, 503 or 504; rq.records: the breaker records, in order
    served,    \* number of requests accepted so far
    ctxErr,    \* r.Context().Err() != nil: the request context is cancelled
    dlPc,      \* position of the Deadline middleware's own goroutine
    claimed,   \* deadlineWriter.claimed
    client,    \* the calls that reached the client's ResponseWriter, in order
    current,   \* Reloader.current: the active config snapshot
    live,      \* the config values held by the limiter, routesRef, router, auth
    rl,        \* the call of Reloader.Reload in progress (err: Load failed)
    rp,        \* a request passing the middleware stack, with what it has read
    mt,        \* route matching: the inputs and the result of the last call
    pl,        \* a request passing the whole middleware stack of main
    lm,        \* the rate limiter: its buckets, its limits, the requests in it
    ft,        \* a call of clientIP, of the Retry-After formatting or of auth
    ad,        \* the AdaptiveBreaker wrapped around the failure-rate breaker
    bp,        \* responseBufferPool, its buffers and the requests using them
    ov         \* Reloader.current and the callbacks' target under concurrent
               \* calls of Reload

brVars == <<br, brOp, brRet, brFrom, hoGhost, refWindow>>
bhVars == <<sem, bhPc, bhRet>>
rtVars == <<rq, served, ctxErr>>
dlVars == <<dlPc, claimed, client>>
rlVars == <<current, live, rl, rp>>
mwVars == <<pl, lm, ft>>
xtVars == <<ad, bp, ov>>

\* ---- FailureRateBreaker ----

NewFailureRateBreaker(windowSize, failureThreshold, resetTimeout, halfOpenMax) ==
    [ state            |-> StateClosed,
      window           |-> [i \in 0..(windowSize - 1) |-> FALSE],
      head             |-> 0,
      count            |-> 0,
      failures         |-> 0,
      windowSize       |-> windowSize,
      failureThreshold |-> failureThreshold,
      resetTimeout     |-> resetTimeout,
      halfOpenMax      |-> halfOpenMax,
      halfOpenSuccess  |-> 0,
      openedAt         |-> 0 ]

transitionTo(b, newState, t) ==
    IF b.state = newState THEN b
    ELSE IF newState = StateClosed
         THEN [b EXCEPT !.state = newState, !.head = 0, !.count = 0,
                        !.failures = 0, !.halfOpenSuccess = 0]
    ELSE IF newState = StateOpen
         THEN [b EXCEPT !.state = newState, !.openedAt = t,
                        !.halfOpenSuccess = 0]
    ELSE [b EXCEPT !.state = newState, !.halfOpenSuccess = 0]

recordOutcome_BlindEvict(b, failed) ==
    LET full    == b.count = b.windowSize
        evicted == IF full THEN b.failures - 1 ELSE b.failures
    IN [b EXCEPT !.count = IF full THEN b.count ELSE b.count + 1,
                 !.window[b.head] = failed,
                 !.failures = evicted + (IF failed THEN 1 ELSE 0),
                 !.head = (b.head + 1) % b.windowSize]

recordOutcome_NoAdvance(b, failed) ==
    LET full    == b.count = b.windowSize
        evicted == IF full /\ b.window[b.head] THEN b.failures - 1 ELSE b.failures
    IN [b EXCEPT !.count = IF full THEN b.count ELSE b.count + 1,
                 !.window[b.head] = failed,
                 !.failures = evicted + (IF failed THEN 1 ELSE 0)]

recordOutcome(b, failed) ==
    LET full    == b.count = b.windowSize
        evicted == IF full /\ b.window[b.head] THEN b.failures - 1 ELSE b.failures
    IN [b EXCEPT !.count = IF full THEN b.count ELSE b.count + 1,
                 !.window[b.head] = failed,
                 !.failures = evicted + (IF failed THEN 1 ELSE 0),
                 !.head = (b.head + 1) % b.windowSize]

\* failureRate as the fraction <<numerator, denominator>>
failureRate(b) ==
    IF b.count = 0 THEN <<0, 1>> ELSE <<b.failures, b.count>>

\* rate >= threshold, the threshold in percent
RateAtLeast(rate, threshold) == rate[1] * 100 >= threshold * rate[2]

FailureRateBreaker_Allow_ToClosed(b, t) ==
    IF b.state = StateOpen
    THEN IF t - b.openedAt >= b.resetTimeout
         THEN [b |-> transitionTo(b, StateClosed, t), ok |-> TRUE]
         ELSE [b |-> b, ok |-> FALSE]
    ELSE [b |-> b, ok |-> TRUE]

FailureRateBreaker_Allow_Late(b, t) ==
    IF b.state = StateOpen
    THEN IF t - b.openedAt > b.resetTimeout
         THEN [b |-> transitionTo(b, StateHalfOpen, t), ok |-> TRUE]
         ELSE [b |-> b, ok |-> FALSE]
    ELSE [b |-> b, ok |-> TRUE]

FailureRateBreaker_Allow(b, t) ==
    IF b.state = StateOpen
    THEN IF t - b.openedAt >= b.resetTimeout
         THEN [b |-> transitionTo(b, StateHalfOpen, t), ok |-> TRUE]
         ELSE [b |-> b, ok |-> FALSE]
    ELSE [b |-> b, ok |-> TRUE]

FailureRateBreaker_RecordSuccess_Late(b, t) ==
    IF b.state = StateClosed THEN recordOutcome(b, FALSE)
    ELSE IF b.state = StateHalfOpen
         THEN LET b1 == [b EXCEPT !.halfOpenSuccess = b.halfOpenSuccess + 1]
              IN IF b1.halfOpenSuccess > b1.halfOpenMax
                 THEN transitionTo(b1, StateClosed, t)
                 ELSE b1
    ELSE b

FailureRateBreaker_RecordSuccess(b, t) ==
    IF b.state = StateClosed THEN recordOutcome(b, FALSE)
    ELSE IF b.state = StateHalfOpen
         THEN LET b1 == [b EXCEPT !.halfOpenSuccess = b.halfOpenSuccess + 1]
              IN IF b1.halfOpenSuccess >= b1.halfOpenMax
                 THEN transitionTo(b1, StateClosed, t)
                 ELSE b1
    ELSE b

FailureRateBreaker_RecordFailure_AnyCount(b, t) ==
    IF b.state = StateClosed
    THEN LET b1 == recordOutcome(b, TRUE)
         IN IF RateAtLeast(failureRate(b1), b1.failureThreshold)
            THEN transitionTo(b1, StateOpen, t)
            ELSE b1
    ELSE IF b.state = StateHalfOpen THEN transitionTo(b, StateOpen, t)
    ELSE b

FailureRateBreaker_RecordFailure(b, t) ==
    IF b.state = StateClosed
    THEN LET b1 == recordOutcome(b, TRUE)
         IN IF b1.count >= b1.windowSize
               /\ RateAtLeast(failureRate(b1), b1.failureThreshold)
            THEN transitionTo(b1, StateOpen, t)
            ELSE b1
    ELSE IF b.state = StateHalfOpen THEN transitionTo(b, StateOpen, t)
    ELSE b

FailureRateBreaker_Reset(b, t) == transitionTo(b, StateClosed, t)

SetFailureThreshold(b, th) == [b EXCEPT !.failureThreshold = th]

\* cfg is [WindowSize, FailureThreshold, ResetTimeout, HalfOpenMax]
CompositeBreaker_UpdateConfig(b, cfg) ==
    LET b1 == [b EXCEPT !.failureThreshold = cfg.FailureThreshold,
                        !.resetTimeout = cfg.ResetTimeout,
                        !.halfOpenMax = cfg.HalfOpenMax]
    IN IF cfg.WindowSize # b.windowSize
       THEN [b1 EXCEPT !.window = [i \in 0..(cfg.WindowSize - 1) |-> FALSE],
                       !.windowSize = cfg.WindowSize,
                       !.head = 0, !.count = 0, !.failures = 0]
       ELSE b1

Configs ==
    [WindowSize : WindowSizes, FailureThreshold : Thresholds,
     ResetTimeout : ResetTimeouts, HalfOpenMax : HalfOpenMaxes]

\* history of successes since HalfOpen was entered, after a step from b to b1
GhostAfter(b, b1, op) ==
    IF b1.state # StateHalfOpen THEN 0
    ELSE IF b.state # StateHalfOpen THEN 0
    ELSE IF op = "RecordSuccess" THEN hoGhost + 1
    ELSE hoGhost

\* the reference sliding window after a step from b to b1: an outcome
\* recorded in Closed is appended and the oldest dropped beyond windowSize;
\* the window starts again when Closed is entered from another state or
\* when the window size changes
RefAfter(b, b1, op) ==
    IF b.state = StateClosed /\ op \in {"RecordSuccess", "RecordFailure"}
    THEN LET w == Append(refWindow, op = "RecordFailure")
         IN IF Len(w) > b.windowSize THEN Tail(w) ELSE w
    ELSE IF b.state # StateClosed /\ b1.state = StateClosed THEN <<>>
    ELSE IF b1.windowSize # b.windowSize THEN <<>>
    ELSE refWindow

BreakerStep(b1, op, ret) ==
    /\ br' = b1
    /\ brOp' = op
    /\ brRet' = ret
    /\ brFrom' = br.state
    /\ hoGhost' = GhostAfter(br, b1, op)
    /\ refWindow' = RefAfter(br, b1, op)

\* ---- BulkheadBreaker ----

Callers == 1..NumCallers

\* select { case b.sem <- struct{}{}: ... default: ... }
BulkheadBreaker_Acquire_OffByOne(s, max) ==
    IF s <= max THEN [sem |-> s + 1, ok |-> TRUE] ELSE [sem |-> s, ok |-> FALSE]

BulkheadBreaker_Acquire(s, max) ==
    IF s < max THEN [sem |-> s + 1, ok |-> TRUE] ELSE [sem |-> s, ok |-> FALSE]

\* the rest of Allow once the slot is held and the inner breaker has answered
BulkheadBreaker_AfterInner_KeepSlot(s, innerOk) ==
    [sem |-> s, ok |-> innerOk]

BulkheadBreaker_AfterInner(s, innerOk) ==
    IF ~innerOk THEN [sem |-> s - 1, ok |-> FALSE] ELSE [sem |-> s, ok |-> TRUE]

\* <-b.sem
BulkheadBreaker_Release(s) == s - 1

\* ---- the breaker driven by arbitrary callers (every method holds b.mu) ----

BrAllow ==
    LET r == FailureRateBreaker_Allow(br, now)
    IN BreakerStep(r.b, "Allow", r.ok) /\ UNCHANGED <<now, bhVars, rtVars, dlVars, rlVars, mt, mwVars, xtVars>>

BrRecordSuccess ==
    BreakerStep(FailureRateBreaker_RecordSuccess(br, now), "RecordSuccess", TRUE)
    /\ UNCHANGED <<now, bhVars, rtVars, dlVars, rlVars, mt, mwVars, xtVars>>

BrRecordFailure ==
    BreakerStep(FailureRateBreaker_RecordFailure(br, now), "RecordFailure", TRUE)
    /\ UNCHANGED <<now, bhVars, rtVars, dlVars, rlVars, mt, mwVars, xtVars>>

BrReset ==
    BreakerStep(FailureRateBreaker_Reset(br, now), "Reset", TRUE)
    /\ UNCHANGED <<now, bhVars, rtVars, dlVars, rlVars, mt, mwVars, xtVars>>

BrSetFailureThreshold ==
    \E th \in Thresholds :
        BreakerStep(SetFailureThreshold(br, th), "SetFailureThreshold", TRUE)
        /\ UNCHANGED <<now, bhVars, rtVars, dlVars, rlVars, mt, mwVars, xtVars>>

BrUpdateConfig ==
    \E cfg \in Configs :
        BreakerStep(CompositeBreaker_UpdateConfig(br, cfg), "UpdateConfig", TRUE)
        /\ UNCHANGED <<now, bhVars, rtVars, dlVars, rlVars, mt, mwVars, xtVars>>

BrTick ==
    /\ now < MaxTime
    /\ now' = now + 1
    /\ brOp' = "Tick"
    /\ brFrom' = br.state
    /\ brRet' = TRUE
    /\ UNCHANGED <<br, hoGhost, refWindow, bhVars, rtVars, dlVars, rlVars, mt, mwVars, xtVars>>

vars == <<br, now, brOp, brRet, brFrom, hoGhost, refWindow, sem, bhPc, bhRet,
          rq, served, ctxErr, dlPc, claimed, client, current, live, rl, rp, mt,
          pl, lm, ft, ad, bp, ov>>

\* NewComposite: a new breaker stack with any valid configuration
InitBr ==
    /\ \E cfg \in Configs :
          br = NewFailureRateBreaker(cfg.WindowSize, cfg.FailureThreshold,
                                     cfg.ResetTimeout, cfg.HalfOpenMax)
    /\ now = 0
    /\ brOp = "New"
    /\ brRet = TRUE
    /\ brFrom = StateClosed
    /\ hoGhost = 0
    /\ refWindow = <<>>

\* NewBulkheadBreaker: an empty semaphore, no caller has started
InitBh ==
    /\ sem = 0
    /\ bhPc = [c \in Callers |-> "idle"]
    /\ bhRet = [c \in Callers |-> "none"]

\* no request has arrived yet
NoRequest ==
    [ pc            |-> "idle",
      impl          |-> "buffered",
      retryAttempts |-> 0,
      attempt       |-> 0,
      hits          |-> 0,
      retried       |-> 0,
      allowed       |-> "none",
      releases      |-> 0,
      exit          |-> "none",
      status        |-> 0,
      wstep         |-> 0,
      after         |-> "none",
      failed        |-> <<>>,
      records       |-> <<>>,
      timedOut      |-> FALSE,
      body          |-> <<>>,
      fallbackStatus |-> 0,
      fallbackBody  |-> <<>>,
      sleep         |-> 0 ]

InitRt ==
    /\ rq = NoRequest
    /\ served = 0
    /\ ctxErr = FALSE

InitDl ==
    /\ dlPc = "idle"
    /\ claimed = FALSE
    /\ client = <<>>

\* the circuit_breaker section of the config file loaded at startup
StartupConfig ==
    [ WindowSize       |-> MaxWindow - 1,
      FailureThreshold |-> 50,
      ResetTimeout     |-> 1,
      HalfOpenMax      |-> 1 ]

\* no Reload is running and no request is in the middleware stack
NoReload ==
    [ pc |-> "idle", newCfg |-> 0, before |-> 0, err |-> FALSE,
      outcome |-> "none", calls |-> 0, loads |-> 0 ]

NoPipeline ==
    [ pc |-> "idle", n |-> 0, logRoutes |-> 0, limRoutes |-> 0, limRate |-> 0,
      limBurst |-> 0, auth |-> 0, router |-> 0 ]

\* main: every component is built from the snapshot loaded at startup (id 0)
InitRl ==
    /\ current = [id |-> 0, cb |-> StartupConfig]
    /\ live = [rate |-> 0, burst |-> 0, routes |-> 0, logRoutes |-> 0,
               router |-> 0, auth |-> 0]
    /\ rl = NoReload
    /\ rp = NoPipeline

\* no route-matching call has been made
InitMt ==
    mt = [op |-> "none", path |-> <<>>, prefix |-> <<>>, routes |-> <<>>,
          ok |-> FALSE, match |-> <<>>, limit |-> [rps |-> 0, burst |-> 0]]

\* the handler has not answered
NoOutcome ==
    [status |-> 0, code |-> "", next |-> FALSE, validated |-> FALSE,
     claims |-> "none"]

\* no request is in the middleware stack
NoStages ==
    [pc |-> "idle", at |-> 0, chain |-> <<>>, globalTimeout |-> 0,
     method |-> "GET", tooLarge |-> FALSE, auth |-> NoOutcome,
     trace |-> <<>>, status |-> 0, by |-> "none",
     validated |-> FALSE, breaker |-> FALSE]

\* the clock of the limiter counts half minutes
TicksPerMinute == 2
SecondsPerTick == 30

\* a rate too slow to add a token within MaxClock ticks, and one that
\* fills any bucket within a tick
SlowRate == [num |-> 1, den |-> 1000]
FastRate == [num |-> 1, den |-> 1]

\* the limits a config may carry, and the values of (l.rate, l.burst),
\* which UpdateConfig writes one after the other
LimitConfigs ==
    {[rate |-> SlowRate, burst |-> MaxBurst], [rate |-> FastRate, burst |-> 1]}

ClientIPs == {"10.0.0.1", "10.0.0.2"}
Requests == 1..NumRequests
BucketIds == 1..MaxBuckets

\* clientKey{ip, rate, burst}
ClientKeys == [ip : ClientIPs, rate : {SlowRate, FastRate}, burst : 1..MaxBurst]

\* a slot of the heap that holds no client
NoClient ==
    [alive |-> FALSE, key |-> [ip |-> "10.0.0.1", rate |-> SlowRate, burst |-> 1],
     tokens |-> 0, lastSeen |-> 0, lastUsed |-> 0, fresh |-> FALSE,
     admitted |-> 0, epoch |-> 0]

\* no request is in the limiter's middleware
NoLimiterRequest ==
    [pc |-> "idle",
     key |-> [ip |-> "10.0.0.1", rate |-> SlowRate, burst |-> 1],
     id |-> 0, epoch |-> 0, raced |-> FALSE, out |-> "none"]

\* ratelimit.New(cfg, ...): the limits of the first config, no clients
NewLimiter(cfg) ==
    [clock |-> 0, rate |-> cfg.rate, burst |-> cfg.burst,
     cfg |-> cfg, mu |-> "free", pending |-> cfg,
     updates |-> 0,
     clients |-> [k \in ClientKeys |-> 0],
     heap |-> [i \in BucketIds |-> NoClient],
     reqs |-> [r \in Requests |-> NoLimiterRequest]]

\* in every other specification the limiter is not exercised
NoLimiter == [clock |-> 0]

\* no call has been made
NoCall == [fn |-> "none"]

\* no adaptive layer: NewComposite with cfg.Adaptive false
NoAdaptive ==
    [enabled |-> FALSE, ewmaLatency |-> 0, baseThreshold |-> 0,
     configured |-> 0, updated |-> FALSE]

\* no request has used responseBufferPool
NoPool == [pool |-> {}]

\* no Reload has been called: everything is built from the startup snapshot
NoOverlap == [current |-> 0]

InitXt == ad = NoAdaptive /\ bp = NoPool /\ ov = NoOverlap

InitMw ==
    /\ pl = NoStages
    /\ lm = NoLimiter
    /\ ft = NoCall
    /\ InitXt

InitBreaker ==
    InitBr /\ InitBh /\ InitRt /\ InitDl /\ InitRl /\ InitMt /\ InitMw

\* a bulkhead around a breaker of any window size and reset timeout
InitBulkhead ==
    /\ \E w \in WindowSizes, rt \in ResetTimeouts :
          br = NewFailureRateBreaker(w, 50, rt, 1)
    /\ now = 0
    /\ brOp = "New"
    /\ brRet = TRUE
    /\ brFrom = StateClosed
    /\ hoGhost = 0
    /\ refWindow = <<>>
    /\ InitBh
    /\ InitRt
    /\ InitDl
    /\ InitRl
    /\ InitMt
    /\ InitMw

NextBreaker ==
    \/ BrAllow
    \/ BrRecordSuccess
    \/ BrRecordFailure
    \/ BrReset
    \/ BrSetFailureThreshold
    \/ BrUpdateConfig
    \/ BrTick

SpecBreaker == InitBreaker /\ [][NextBreaker]_vars

\* ---- concurrent callers of the bulkhead (Allow, record, Release) ----

\* BulkheadBreaker.Allow up to the select: non-blocking acquire of a slot
BhAcquire(c) ==
    /\ bhPc[c] = "idle"
    /\ LET r == BulkheadBreaker_Acquire(sem, MaxConcurrent)
       IN /\ sem' = r.sem
          /\ bhPc' = [bhPc EXCEPT ![c] = IF r.ok THEN "acquired" ELSE "done"]
          /\ bhRet' = [bhRet EXCEPT ![c] = IF r.ok THEN "none" ELSE "full"]
    /\ UNCHANGED <<now, brVars, rtVars, dlVars, rlVars, mt, mwVars, xtVars>>

\* BulkheadBreaker.Allow after the acquire: b.inner.Allow() and its result
BhInner(c) ==
    /\ bhPc[c] = "acquired"
    /\ LET i == FailureRateBreaker_Allow(br, now)
           r == BulkheadBreaker_AfterInner(sem, i.ok)
       IN /\ BreakerStep(i.b, "Allow", i.ok)
          /\ sem' = r.sem
          /\ bhPc' = [bhPc EXCEPT ![c] = IF r.ok THEN "admitted" ELSE "done"]
          /\ bhRet' = [bhRet EXCEPT ![c] = IF r.ok THEN "ok" ELSE "inner"]
    /\ UNCHANGED <<now, rtVars, dlVars, rlVars, mt, mwVars, xtVars>>

\* BulkheadBreaker.RecordSuccess / RecordFailure by an admitted caller
BhRecord(c) ==
    /\ bhPc[c] = "admitted"
    /\ \/ BreakerStep(FailureRateBreaker_RecordSuccess(br, now),
                       "RecordSuccess", TRUE)
       \/ BreakerStep(FailureRateBreaker_RecordFailure(br, now),
                       "RecordFailure", TRUE)
    /\ bhPc' = [bhPc EXCEPT ![c] = "recorded"]
    /\ UNCHANGED <<now, sem, bhRet, rtVars, dlVars, rlVars, mt, mwVars, xtVars>>

\* BulkheadBreaker.Release by a caller whose Allow returned true
BhRelease(c) ==
    /\ bhPc[c] \in {"admitted", "recorded"}
    /\ sem > 0
    /\ sem' = BulkheadBreaker_Release(sem)
    /\ bhPc' = [bhPc EXCEPT ![c] = "done"]
    /\ UNCHANGED <<now, brVars, bhRet, rtVars, dlVars, rlVars, mt, mwVars, xtVars>>

NextBulkhead ==
    \/ \E c \in Callers : BhAcquire(c)
    \/ \E c \in Callers : BhInner(c)
    \/ \E c \in Callers : BhRecord(c)
    \/ \E c \in Callers : BhRelease(c)
    \/ BrTick

SpecBulkhead == InitBulkhead /\ [][NextBulkhead]_vars

Admitted == {c \in Callers : bhPc[c] \in {"admitted", "recorded"}}

\* C8: once every caller has finished (each admitted caller has released
\* exactly once, refused callers never), no slot is held.
C8_Conservation ==
    (\A c \in Callers : bhPc[c] = "done") => sem = 0

C8_Witness ==
    /\ \A c \in Callers : bhPc[c] = "done"
    /\ \E c \in Callers : bhRet[c] = "full"
    /\ \E c \in Callers : bhRet[c] = "inner"
    /\ \E c \in Callers : bhRet[c] = "ok"

\* C10: the requests admitted by Allow and not yet released never exceed
\* max_concurrent; an Allow arriving while max_concurrent slots are held
\* returns false at once (the call is never blocked) and takes no slot.
C10_Limit ==
    /\ [](Cardinality(Admitted) <= MaxConcurrent)
    /\ [](\A c \in Callers : bhPc[c] = "idle" => ENABLED BhAcquire(c))
    /\ [][\A c \in Callers :
            (bhPc[c] = "idle" /\ bhPc'[c] # "idle" /\ sem = MaxConcurrent) =>
                bhPc'[c] = "done" /\ bhRet'[c] = "full" /\ sem' = sem]_vars

C10_Witness ==
    /\ Cardinality(Admitted) = MaxConcurrent
    /\ \E c \in Callers : bhPc[c] = "done" /\ bhRet[c] = "full"

\* the callers that hold a slot: inside Allow after the acquire, or admitted
Holders == {c \in Callers : bhPc[c] \in {"acquired", "admitted", "recorded"}}

\* C30: a BulkheadBreaker.Allow that returns false leaves the number of held
\* slots as it was before the call: a refusal at the full semaphore takes no
\* slot, a refusal by the inner breaker gives back the one slot the call had
\* taken, so that the slots held are always exactly those of the callers
\* still inside Allow or admitted, never one of a refused caller.
C30_RefusalKeepsSlots ==
    /\ [](sem = Cardinality(Holders))
    /\ [][\A c \in Callers :
            (bhRet[c] = "none" /\ bhRet'[c] = "full") =>
                bhPc[c] = "idle" /\ sem' = sem]_vars
    /\ [][\A c \in Callers :
            (bhRet[c] = "none" /\ bhRet'[c] = "inner") =>
                bhPc[c] = "acquired" /\ sem' = sem - 1]_vars

C30_Witness ==
    /\ \E c \in Callers : bhPc[c] = "done" /\ bhRet[c] = "inner"
    /\ \E c \in Callers : bhPc[c] = "done" /\ bhRet[c] = "full"
    /\ sem > 0
    /\ Cardinality(Holders) = sem

\* ---- properties of the failure-rate breaker ----

\* C3: in every reachable state 0 <= failures <= count <= window_size.
C3_WindowBounds ==
    /\ 0 <= br.failures
    /\ br.failures <= br.count
    /\ br.count <= br.windowSize

C3_Witness ==
    /\ brOp = "RecordFailure"
    /\ br.windowSize > 1
    /\ br.count = br.windowSize
    /\ br.failures = br.count

\* C4: every state change is Closed->Open by RecordFailure, Open->HalfOpen by
\* Allow, HalfOpen->Closed by RecordSuccess, HalfOpen->Open by RecordFailure,
\* or any state->Closed by Reset.
C4_DeclaredGraph ==
    [][br'.state # br.state =>
        \/ br.state = StateClosed /\ br'.state = StateOpen
              /\ brOp' = "RecordFailure"
        \/ br.state = StateOpen /\ br'.state = StateHalfOpen
              /\ brOp' = "Allow"
        \/ br.state = StateHalfOpen /\ br'.state = StateClosed
              /\ brOp' = "RecordSuccess"
        \/ br.state = StateHalfOpen /\ br'.state = StateOpen
              /\ brOp' = "RecordFailure"
        \/ br'.state = StateClosed /\ brOp' = "Reset"]_vars

C4_Witness ==
    /\ brFrom = StateHalfOpen
    /\ br.state = StateOpen
    /\ brOp = "RecordFailure"

C6_OpenAllow ==
    [][(br.state = StateOpen /\ brOp' = "Allow") =>
        IF now - br.openedAt >= br.resetTimeout
        THEN br'.state = StateHalfOpen /\ brRet' = TRUE
        ELSE br'.state = StateOpen /\ brRet' = FALSE]_vars

C6_Witness ==
    /\ brFrom = StateOpen
    /\ br.state = StateHalfOpen
    /\ brOp = "Allow"
    /\ brRet = TRUE
    /\ now - br.openedAt = br.resetTimeout
    /\ br.resetTimeout > 1

\* C7: in HalfOpen a recorded success closes the breaker exactly when the
\* successes recorded since HalfOpen was entered reach half_open_max, the
\* window then being empty; a recorded failure returns it to Open with
\* opened_at set to the current time; nothing but Reset changes the state
\* otherwise.
C7_HalfOpen ==
    [][br.state = StateHalfOpen =>
        /\ brOp' = "RecordSuccess" =>
              /\ br'.state = StateClosed <=> hoGhost + 1 >= br.halfOpenMax
              /\ br'.state = StateClosed => br'.count = 0 /\ br'.failures = 0
              /\ br'.state # StateClosed => br'.state = StateHalfOpen
        /\ brOp' = "RecordFailure" =>
              br'.state = StateOpen /\ br'.openedAt = now
        /\ brOp' \notin {"RecordSuccess", "RecordFailure", "Reset"} =>
              br'.state = StateHalfOpen]_vars

C7_Witness ==
    /\ brFrom = StateHalfOpen
    /\ br.state = StateClosed
    /\ brOp = "RecordSuccess"
    /\ br.halfOpenMax > 1
    /\ br.count = 0

\* ---- Router.ServeHTTP behind the Deadline middleware ----

\* the upstream statuses a backend attempt can end with
Statuses == {200, 500, 502, 503, 504}

\* the two Router.ServeHTTP sources: the retry loop that buffers non-final
\* attempts, and the retry loop that discards them and sends again
Impls == {"buffered", "resend"}

\* route.FallbackStatus (0: not configured) and route.FallbackBody
FallbackStatuses == {0, 200}
FallbackBodies == {<<>>, <<"{}">>}

isRetryable_Only502(status) == status = 502

isRetryable(status) == status = 502 \/ status = 503 \/ status = 504

maxAttempts(retryAttempts) ==
    IF retryAttempts + 1 < 1 THEN 1 ELSE retryAttempts + 1

\* proxy.ErrorHandler: the status written when the round trip fails, the
\* per-attempt context deadline included
ErrorHandler == 502

\* CompositeBreaker.Allow with the bulkhead as effective layer
CompositeBreaker_Allow(b, s, t) ==
    LET a == BulkheadBreaker_Acquire(s, MaxConcurrent)
    IN IF ~a.ok THEN [b |-> b, sem |-> a.sem, ok |-> FALSE, inner |-> FALSE]
       ELSE LET i == FailureRateBreaker_Allow(b, t)
                r == BulkheadBreaker_AfterInner(a.sem, i.ok)
            IN [b |-> i.b, sem |-> r.sem, ok |-> r.ok, inner |-> TRUE]

\* CompositeBreaker.Release
CompositeBreaker_Release(s) == BulkheadBreaker_Release(s)

\* "defer breaker.Release()" is registered once Allow has returned true and
\* then runs on every way out of ServeHTTP
DeferredRelease_OnlyAfterLoop(allowed, exit) ==
    allowed = "yes" /\ exit \in {"final", "replay"}

DeferredRelease(allowed, exit) == allowed = "yes"

\* the handler starts a response on the writer it was given (a deadlineWriter)
BeginWrite(r, status, exit, after) ==
    [r EXCEPT !.pc = "writing", !.wstep = 1, !.status = status,
              !.exit = exit, !.after = after]

\* apierror.WriteJSON(w, r, status, code, ...): WriteHeader, then the body
WriteJSON(r, status, code, exit, after) ==
    [BeginWrite(r, status, exit, after) EXCEPT !.body = <<code>>]

\* the reverse proxy copies the upstream (or ErrorHandler) response
ProxyResponse(r, status, exit, after) ==
    [BeginWrite(r, status, exit, after) EXCEPT !.body = <<"upstream">>]

\* the response of ServeHTTP when breaker.Allow returned false
FallbackResponse_Always503(fallbackStatus, fallbackBody) ==
    [status |-> 503, body |-> <<"GATEWAY_CIRCUIT_OPEN">>]

FallbackResponse(fallbackStatus, fallbackBody) ==
    IF fallbackStatus # 0
    THEN [status |-> fallbackStatus,
          body   |-> IF fallbackBody # <<>> THEN fallbackBody \o <<"\n">>
                     ELSE <<>>]
    ELSE [status |-> 503, body |-> <<"GATEWAY_CIRCUIT_OPEN">>]

\* a middleware or the router refuses the request before the breaker check
RejectClient_AfterForward(r, status) ==
    [BeginWrite(r, status, "client", "return") EXCEPT
        !.body = <<"error">>, !.hits = r.hits + 1]

RejectClient(r, status) ==
    [BeginWrite(r, status, "client", "return") EXCEPT !.body = <<"error">>]

\* top of the retry loop: if r.Context().Err() != nil, 504 and return
ServeHTTP_CheckCtx_Ignore(r, cancelled) ==
    [r EXCEPT !.pc = "attempt"]

ServeHTTP_CheckCtx(r, cancelled) ==
    IF cancelled
    THEN WriteJSON(r, 504, "GATEWAY_REQUEST_CANCELLED", "cancelled", "return")
    ELSE [r EXCEPT !.pc = "attempt"]

\* Deadline: a request arrives; the handler goroutine is spawned with a
\* context that carries the deadline
StartRequest ==
    /\ served < MaxRequests
    /\ dlPc \in {"idle", "returned"}
    /\ \E impl \in Impls, R \in 0..MaxRetries :
          rq' = [NoRequest EXCEPT
                    !.pc = "BodyLimit",
                    !.impl = impl,
                    !.retryAttempts = R]
    /\ served' = served + 1
    /\ ctxErr' = FALSE
    /\ dlPc' = "select"
    /\ claimed' = FALSE
    /\ client' = <<>>
    /\ UNCHANGED <<now, brVars, bhVars, rlVars, mt, mwVars, xtVars>>

\* the deadline timer fires or the client goes away
CtxDone ==
    /\ rq.pc \notin {"idle", "done", "panicked"}
    /\ ~ctxErr
    /\ ctxErr' = TRUE
    /\ UNCHANGED <<now, brVars, bhVars, rq, served, dlVars, rlVars, mt, mwVars, xtVars>>

\* middleware.BodyLimit: 413 when Content-Length exceeds the limit
BodyLimit ==
    /\ rq.pc = "BodyLimit"
    /\ \E tooLarge \in BOOLEAN :
          rq' = IF tooLarge THEN RejectClient(rq, 413)
                ELSE [rq EXCEPT !.pc = "RateLimit"]
    /\ UNCHANGED <<now, brVars, bhVars, served, ctxErr, dlVars, rlVars, mt, mwVars, xtVars>>

\* Limiter.Middleware: 429 when the client's limiter refuses
Limiter_Middleware ==
    /\ rq.pc = "RateLimit"
    /\ \E allow \in BOOLEAN :
          rq' = IF ~allow THEN RejectClient(rq, 429)
                ELSE [rq EXCEPT !.pc = "Auth"]
    /\ UNCHANGED <<now, brVars, bhVars, served, ctxErr, dlVars, rlVars, mt, mwVars, xtVars>>

\* auth.Middleware: 401 for a missing or invalid token, 403 for a scope error
Middleware ==
    /\ rq.pc = "Auth"
    /\ \E verdict \in {0, 401, 403} :
          rq' = IF verdict # 0 THEN RejectClient(rq, verdict)
                ELSE [rq EXCEPT !.pc = "match"]
    /\ UNCHANGED <<now, brVars, bhVars, served, ctxErr, dlVars, rlVars, mt, mwVars, xtVars>>

\* Router.ServeHTTP: matchRoute (404) and the method check (405)
ServeHTTP_Match ==
    /\ rq.pc = "match"
    /\ \E found \in BOOLEAN, methodOk \in BOOLEAN :
          rq' = IF ~found THEN RejectClient(rq, 404)
                ELSE IF ~methodOk THEN RejectClient(rq, 405)
                ELSE IF rq.impl = "buffered" THEN [rq EXCEPT !.pc = "allow"]
                ELSE [rq EXCEPT !.pc = "attempt", !.attempt = 1]
    /\ UNCHANGED <<now, brVars, bhVars, served, ctxErr, dlVars, rlVars, mt, mwVars, xtVars>>

\* circuit breaker check
ServeHTTP_Allow ==
    /\ rq.pc = "allow"
    /\ LET r == CompositeBreaker_Allow(br, sem, now)
       IN /\ IF r.inner
             THEN BreakerStep(r.b, "Allow", r.ok)
             ELSE UNCHANGED brVars
          /\ sem' = r.sem
          /\ IF r.ok
             THEN rq' = [rq EXCEPT !.pc = "check", !.allowed = "yes",
                                   !.attempt = 1]
             ELSE \E fs \in FallbackStatuses, fb \in FallbackBodies :
                     LET f == FallbackResponse(fs, fb)
                     IN rq' = [BeginWrite(rq, f.status, "rejected", "return")
                                  EXCEPT !.allowed = "no", !.body = f.body,
                                         !.fallbackStatus = fs,
                                         !.fallbackBody = fb]
    /\ UNCHANGED <<now, bhPc, bhRet, served, ctxErr, dlVars, rlVars, mt, mwVars, xtVars>>

\* top of the retry loop: context cancellation check
ServeHTTP_Check ==
    /\ rq.pc = "check"
    /\ rq' = ServeHTTP_CheckCtx(rq, ctxErr)
    /\ UNCHANGED <<now, brVars, bhVars, served, ctxErr, dlVars, rlVars, mt, mwVars, xtVars>>

\* final attempt: proxy.ServeHTTP writes straight to the client; when the
\* per-attempt deadline fires first, ErrorHandler writes the response
ServeHTTP_FinalAttempt ==
    /\ rq.pc = "attempt"
    /\ rq.attempt = maxAttempts(rq.retryAttempts)
    /\ \E timeout \in BOOLEAN, upstream \in Statuses :
          LET status == IF timeout THEN ErrorHandler ELSE upstream
          IN rq' = ProxyResponse(
                      [rq EXCEPT !.hits = rq.hits + 1,
                                 !.failed = Append(rq.failed,
                                               status \in {502, 503, 504}),
                                 !.timedOut = timeout],
                      status, "final",
                      IF rq.impl = "buffered" THEN "record" ELSE "return")
    /\ UNCHANGED <<now, brVars, bhVars, served, ctxErr, dlVars, rlVars, mt, mwVars, xtVars>>

\* after the final attempt: classify by the recorded status
ServeHTTP_RecordFinal ==
    /\ rq.pc = "record"
    /\ IF isRetryable(rq.status)
       THEN /\ BreakerStep(FailureRateBreaker_RecordFailure(br, now),
                           "RecordFailure", TRUE)
            /\ rq' = [rq EXCEPT !.pc = "return",
                                !.records = Append(rq.records, "RecordFailure")]
       ELSE /\ BreakerStep(FailureRateBreaker_RecordSuccess(br, now),
                           "RecordSuccess", TRUE)
            /\ rq' = [rq EXCEPT !.pc = "return",
                                !.records = Append(rq.records, "RecordSuccess")]
    /\ UNCHANGED <<now, bhVars, served, ctxErr, dlVars, rlVars, mt, mwVars, xtVars>>

\* backoff := time.Duration(100*(1<<(attempt-1))) * time.Millisecond, in
\* units of 100 ms
Backoff(attempt) == 2 ^ (attempt - 1)

\* non-final attempt into a responseBuffer: replay it or record the failure
ServeHTTP_BufferedAttempt ==
    /\ rq.pc = "attempt"
    /\ rq.impl = "buffered"
    /\ rq.attempt < maxAttempts(rq.retryAttempts)
    /\ \E timeout \in BOOLEAN, upstream \in Statuses :
          LET status == IF timeout THEN ErrorHandler ELSE upstream
              r1 == [rq EXCEPT !.hits = rq.hits + 1,
                               !.failed = Append(rq.failed,
                                             status \in {502, 503, 504})]
          IN IF ~isRetryable(status)
             THEN /\ BreakerStep(FailureRateBreaker_RecordSuccess(br, now),
                                 "RecordSuccess", TRUE)
                  /\ rq' = ProxyResponse(
                              [r1 EXCEPT !.records =
                                  Append(rq.records, "RecordSuccess")],
                              status, "replay", "return")
             ELSE /\ BreakerStep(FailureRateBreaker_RecordFailure(br, now),
                                 "RecordFailure", TRUE)
                  /\ rq' = [r1 EXCEPT !.retried = rq.retried + 1,
                                      !.records =
                                          Append(rq.records, "RecordFailure"),
                                      !.status = status,
                                      !.sleep = Backoff(rq.attempt),
                                      !.pc = "backoff"]
    /\ UNCHANGED <<now, bhVars, served, ctxErr, dlVars, rlVars, mt, mwVars, xtVars>>

\* non-final attempt into a discardWriter: on a non-retryable status the
\* request is sent to the backend again, this time with the real writer
ServeHTTP_ResendAttempt ==
    /\ rq.pc = "attempt"
    /\ rq.impl = "resend"
    /\ rq.attempt < maxAttempts(rq.retryAttempts)
    /\ \E status \in Statuses :
          IF ~isRetryable(status)
          THEN \E again \in Statuses :
                  rq' = ProxyResponse(
                           [rq EXCEPT !.hits = rq.hits + 2,
                                      !.failed = rq.failed \o
                                          <<status \in {502, 503, 504},
                                            again \in {502, 503, 504}>>],
                           again, "replay", "return")
          ELSE rq' = [rq EXCEPT !.hits = rq.hits + 1,
                                !.failed = Append(rq.failed,
                                              status \in {502, 503, 504}),
                                !.retried = rq.retried + 1,
                                !.status = status,
                                !.sleep = Backoff(rq.attempt),
                                !.pc = "backoff"]
    /\ UNCHANGED <<now, brVars, bhVars, served, ctxErr, dlVars, rlVars, mt, mwVars, xtVars>>

\* the reverse proxy aborts the handler (panic) during an attempt
ServeHTTP_Panic ==
    /\ rq.pc = "attempt"
    /\ rq' = [rq EXCEPT !.hits = rq.hits + 1, !.exit = "panic",
                        !.pc = "return"]
    /\ UNCHANGED <<now, brVars, bhVars, served, ctxErr, dlVars, rlVars, mt, mwVars, xtVars>>

\* time.Sleep(backoff) in progress: 100 ms of the backoff go by
ServeHTTP_Sleep ==
    /\ rq.pc = "backoff"
    /\ rq.sleep > 0
    /\ rq' = [rq EXCEPT !.sleep = rq.sleep - 1]
    /\ UNCHANGED <<now, brVars, bhVars, served, ctxErr, dlVars, rlVars, mt, mwVars, xtVars>>

\* time.Sleep(backoff) has returned: the next iteration
ServeHTTP_Backoff ==
    /\ rq.pc = "backoff"
    /\ rq.sleep = 0
    /\ rq' = [rq EXCEPT !.attempt = rq.attempt + 1,
                        !.pc = IF rq.impl = "buffered" THEN "check"
                               ELSE "attempt"]
    /\ UNCHANGED <<now, brVars, bhVars, served, ctxErr, dlVars, rlVars, mt, mwVars, xtVars>>

\* deadlineWriter.WriteHeader: claimed.Store(true), then the client's writer;
\* a response without a body ends here
deadlineWriter_WriteHeader ==
    /\ rq.pc = "writing"
    /\ \/ /\ rq.wstep = 1
          /\ claimed' = TRUE
          /\ client' = client
          /\ rq' = [rq EXCEPT !.wstep = 2]
       \/ /\ rq.wstep = 2
          /\ client' = Append(client, [by |-> "handler", call |-> "WriteHeader",
                                       status |-> rq.status, body |-> <<>>])
          /\ claimed' = claimed
          /\ rq' = IF rq.body = <<>>
                   THEN [rq EXCEPT !.wstep = 0, !.pc = rq.after,
                                   !.after = "none"]
                   ELSE [rq EXCEPT !.wstep = 3]
    /\ UNCHANGED <<now, brVars, bhVars, served, ctxErr, dlPc, rlVars, mt, mwVars, xtVars>>

\* deadlineWriter.Write: claimed.Store(true), then the client's writer
deadlineWriter_Write ==
    /\ rq.pc = "writing"
    /\ \/ /\ rq.wstep = 3
          /\ claimed' = TRUE
          /\ client' = client
          /\ rq' = [rq EXCEPT !.wstep = 4]
       \/ /\ rq.wstep = 4
          /\ client' = Append(client, [by |-> "handler", call |-> "Write",
                                       status |-> rq.status,
                                       body |-> rq.body])
          /\ claimed' = claimed
          /\ rq' = [rq EXCEPT !.wstep = 0, !.pc = rq.after, !.after = "none"]
    /\ UNCHANGED <<now, brVars, bhVars, served, ctxErr, dlPc, rlVars, mt, mwVars, xtVars>>

\* ServeHTTP returns or unwinds: deferred calls run, then close(done); a
\* panic is not recovered in the handler goroutine and ends the process
ServeHTTP_Return ==
    /\ rq.pc = "return"
    /\ IF DeferredRelease(rq.allowed, rq.exit)
       THEN /\ sem > 0
            /\ sem' = CompositeBreaker_Release(sem)
            /\ rq' = [rq EXCEPT !.releases = rq.releases + 1,
                                !.pc = IF rq.exit = "panic" THEN "panicked"
                                       ELSE "done"]
       ELSE /\ sem' = sem
            /\ rq' = [rq EXCEPT !.pc = IF rq.exit = "panic" THEN "panicked"
                                       ELSE "done"]
    /\ UNCHANGED <<now, brVars, bhPc, bhRet, served, ctxErr, dlVars, rlVars, mt, mwVars, xtVars>>

\* <-done: the receive completes once the handler goroutine has run
\* close(done), its last statement
doneClosed_Early(r) == TRUE

doneClosed(r) == r.pc = "done"

tryClaimWrite_Always(c) == [claimed |-> TRUE, ok |-> TRUE]

\* tryClaimWrite: claimed.CompareAndSwap(false, true)
tryClaimWrite(c) ==
    IF c = FALSE THEN [claimed |-> TRUE, ok |-> TRUE]
    ELSE [claimed |-> c, ok |-> FALSE]

\* select: case <-done
Deadline_SelectDone ==
    /\ dlPc = "select"
    /\ doneClosed(rq)
    /\ dlPc' = "returned"
    /\ UNCHANGED <<now, brVars, bhVars, rtVars, claimed, client, rlVars, mt, mwVars, xtVars>>

\* select: case <-ctx.Done(), then tryClaimWrite
Deadline_SelectCtxDone ==
    /\ dlPc = "select"
    /\ ctxErr
    /\ LET r == tryClaimWrite(claimed)
       IN /\ claimed' = r.claimed
          /\ dlPc' = IF r.ok THEN "writeHeader" ELSE "wait"
    /\ UNCHANGED <<now, brVars, bhVars, rtVars, client, rlVars, mt, mwVars, xtVars>>

\* apierror.WriteJSON(w, r, 504, DeadlineExceeded, ...) on the client's writer
Deadline_Write504 ==
    /\ \/ /\ dlPc = "writeHeader"
          /\ client' = Append(client, [by |-> "deadline", call |-> "WriteHeader",
                                       status |-> 504, body |-> <<>>])
          /\ dlPc' = "write"
       \/ /\ dlPc = "write"
          /\ client' = Append(client, [by |-> "deadline", call |-> "Write",
                                       status |-> 504,
                                       body |-> <<"GATEWAY_DEADLINE_EXCEEDED">>])
          /\ dlPc' = "wait"
    /\ UNCHANGED <<now, brVars, bhVars, rtVars, claimed, rlVars, mt, mwVars, xtVars>>

\* <-done after the deadline branch
Deadline_WaitDone ==
    /\ dlPc = "wait"
    /\ doneClosed(rq)
    /\ dlPc' = "returned"
    /\ UNCHANGED <<now, brVars, bhVars, rtVars, claimed, client, rlVars, mt, mwVars, xtVars>>

\* the router's breaker is built from one configuration
Init ==
    /\ br = NewFailureRateBreaker(StartupConfig.WindowSize,
                                  StartupConfig.FailureThreshold,
                                  StartupConfig.ResetTimeout,
                                  StartupConfig.HalfOpenMax)
    /\ now = 0
    /\ brOp = "New"
    /\ brRet = TRUE
    /\ brFrom = StateClosed
    /\ hoGhost = 0
    /\ refWindow = <<>>
    /\ InitBh
    /\ InitRt
    /\ InitDl
    /\ InitRl
    /\ InitMt
    /\ InitMw

Next ==
    \/ StartRequest
    \/ CtxDone
    \/ BodyLimit
    \/ Limiter_Middleware
    \/ Middleware
    \/ ServeHTTP_Match
    \/ ServeHTTP_Allow
    \/ ServeHTTP_Check
    \/ ServeHTTP_FinalAttempt
    \/ ServeHTTP_RecordFinal
    \/ ServeHTTP_BufferedAttempt
    \/ ServeHTTP_ResendAttempt
    \/ ServeHTTP_Panic
    \/ ServeHTTP_Sleep
    \/ ServeHTTP_Backoff
    \/ deadlineWriter_WriteHeader
    \/ deadlineWriter_Write
    \/ ServeHTTP_Return
    \/ Deadline_SelectDone
    \/ Deadline_SelectCtxDone
    \/ Deadline_Write504
    \/ Deadline_WaitDone
    \/ BrTick

Spec == Init /\ [][Next]_vars

\* ---- properties of the router and the deadline ----

\* the request ended with a backend answer delivered to the client
Answered == rq.pc = "done" /\ rq.exit \in {"final", "replay"}

\* C1: a request that ends with a backend answer has contacted the backend
\* exactly 1 + k times, k being the number of retryable statuses returned by
\* its non-final attempts (so exactly once when the first status is not
\* retryable).
C1_BackendHits == Answered => rq.hits = 1 + rq.retried

HandlerWrote == \E i \in DOMAIN client : client[i].by = "handler"
DeadlineWrote == \E i \in DOMAIN client : client[i].by = "deadline"

\* C2: at most one of the handler and the deadline side writes a response to
\* the client's writer.
C2_Exclusive == ~(HandlerWrote /\ DeadlineWrote)

\* C9: when ServeHTTP is over, Release has been called exactly once if Allow
\* returned true (whatever the exit path) and never if Allow returned false;
\* it is never called more than once and the slot is free again.
C9_ReleaseOnce ==
    /\ rq.releases <= 1
    /\ rq.pc \in {"done", "panicked"} =>
          /\ rq.allowed = "yes" => rq.releases = 1
          /\ rq.allowed = "no" => rq.releases = 0
          /\ sem = 0

C9_Witness ==
    /\ rq.pc = "done"
    /\ rq.allowed = "yes"
    /\ rq.exit = "cancelled"

\* C28: the Deadline middleware returns to its caller only after the handler
\* goroutine has terminated (it has closed done), on the branch where the
\* handler finishes first and on the branch where the deadline fires first,
\* whether or not the deadline side wrote the 504.
C28_ReturnAfterHandler ==
    /\ [](dlPc = "returned" => rq.pc = "done")
    /\ [][(dlPc # "returned" /\ dlPc' = "returned") =>
            /\ rq.pc = "done"
            /\ dlPc \in {"select", "wait"}]_vars

C28_Witness ==
    /\ dlPc = "returned"
    /\ rq.pc = "done"
    /\ ctxErr
    /\ DeadlineWrote
    /\ rq.hits > 0

\* C29: when the handler's first WriteHeader or Write has set claimed before
\* the deadline side calls tryClaimWrite, the deadline side writes nothing:
\* it goes from the select to the wait for done, and only a deadline side
\* that found claimed unset ever writes to the client.
C29_NoLate504 ==
    /\ [][(dlPc = "select" /\ dlPc' \notin {"select", "returned"} /\ claimed) =>
            /\ dlPc' = "wait"
            /\ client' = client]_vars
    /\ [][(dlPc # "writeHeader" /\ dlPc' = "writeHeader") =>
            dlPc = "select" /\ ~claimed]_vars
    /\ [][(Len(client') > Len(client) /\ client'[Len(client')].by = "deadline") =>
            dlPc \in {"writeHeader", "write"}]_vars
    /\ [][dlPc = "wait" => dlPc' \in {"wait", "returned"}]_vars

C29_Witness ==
    /\ dlPc = "wait"
    /\ ctxErr
    /\ claimed
    /\ HandlerWrote
    /\ ~DeadlineWrote
    /\ rq.exit \in {"final", "replay"}
    /\ rq.retried > 0
    /\ rq.releases = 1

\* ---- Reloader.Reload, the reload callback of main, and a request ----

\* the circuit-breaker sections a reloaded file can carry
ReloadConfigs ==
    [WindowSize : WindowSizes, FailureThreshold : {50}, ResetTimeout : {1},
     HalfOpenMax : {1}]

\* Reloader.Current
Current == current

\* Reload after Load has returned (newCfg, err): the swap under r.mu, or the
\* early return that keeps the current snapshot
Reload_Result_SwapAnyway(err, cur, newCfg) ==
    [current |-> newCfg, ok |-> ~err]

Reload_Result(err, cur, newCfg) ==
    IF err THEN [current |-> cur, ok |-> FALSE]
    ELSE [current |-> newCfg, ok |-> TRUE]

\* Reload: Load(r.path), then return false or swap r.current
Reload_Load ==
    /\ rl.pc = "idle"
    /\ rl.loads < MaxReloads
    /\ \E err \in BOOLEAN, cb \in ReloadConfigs :
          LET r == Reload_Result(err, current, [id |-> rl.loads + 1, cb |-> cb])
          IN /\ current' = r.current
             /\ rl' = [rl EXCEPT !.pc = IF r.ok THEN "UpdateConfig_rate"
                                        ELSE "idle",
                                 !.loads = rl.loads + 1,
                                 !.before = current.id,
                                 !.err = err,
                                 !.newCfg = IF r.ok THEN rl.loads + 1 ELSE 0,
                                 !.outcome = IF r.ok THEN "none" ELSE "false",
                                 !.calls = 0]
    /\ UNCHANGED <<now, brVars, bhVars, rtVars, dlVars, live, rp, mt, mwVars, xtVars>>

\* the callback registered by main starts: limiter.UpdateConfig writes l.rate,
\* l.burst and l.routes (under l.mu, which limitsForPath does not take)
Limiter_UpdateConfig ==
    /\ \/ /\ rl.pc = "UpdateConfig_rate"
          /\ live' = [live EXCEPT !.rate = rl.newCfg]
          /\ rl' = [rl EXCEPT !.pc = "UpdateConfig_burst",
                              !.calls = rl.calls + 1]
       \/ /\ rl.pc = "UpdateConfig_burst"
          /\ live' = [live EXCEPT !.burst = rl.newCfg]
          /\ rl' = [rl EXCEPT !.pc = "UpdateConfig_routes"]
       \/ /\ rl.pc = "UpdateConfig_routes"
          /\ live' = [live EXCEPT !.routes = rl.newCfg]
          /\ rl' = [rl EXCEPT !.pc = "breakers"]
    /\ UNCHANGED <<now, brVars, bhVars, rtVars, dlVars, current, rp, mt, mwVars, xtVars>>

\* the callback: cb.UpdateConfig(newCbCfg) for every breaker
OnReload_Breakers ==
    /\ rl.pc = "breakers"
    /\ BreakerStep(CompositeBreaker_UpdateConfig(br, current.cb),
                   "UpdateConfig", TRUE)
    /\ rl' = [rl EXCEPT !.pc = "routesRef"]
    /\ UNCHANGED <<now, bhVars, rtVars, dlVars, current, live, rp, mt, mwVars, xtVars>>

\* the callback: routesRef.Store(newCfg.Routes); then Reload returns true
OnReload_RoutesRef ==
    /\ rl.pc = "routesRef"
    /\ live' = [live EXCEPT !.logRoutes = rl.newCfg]
    /\ rl' = [rl EXCEPT !.pc = "idle", !.outcome = "true"]
    /\ UNCHANGED <<now, brVars, bhVars, rtVars, dlVars, current, rp, mt, mwVars, xtVars>>

\* a request enters the middleware stack
Pipeline_Start ==
    /\ rp.pc \in {"idle", "done"}
    /\ rp.n < MaxRequests
    /\ rp' = [NoPipeline EXCEPT !.pc = "Logging", !.n = rp.n + 1]
    /\ UNCHANGED <<now, brVars, bhVars, rtVars, dlVars, current, live, rl, mt, mwVars, xtVars>>

\* middleware.Logging: routeLogLevel reads routesRef.Load()
Logging_routeLogLevel ==
    /\ rp.pc = "Logging"
    /\ rp' = [rp EXCEPT !.logRoutes = live.logRoutes, !.pc = "limitsForPath"]
    /\ UNCHANGED <<now, brVars, bhVars, rtVars, dlVars, current, live, rl, mt, mwVars, xtVars>>

\* Limiter.Middleware: limitsForPath reads l.routes, then l.rate and l.burst
Limiter_limitsForPath ==
    /\ \/ /\ rp.pc = "limitsForPath"
          /\ rp' = [rp EXCEPT !.limRoutes = live.routes, !.pc = "l.rate"]
       \/ /\ rp.pc = "l.rate"
          /\ rp' = [rp EXCEPT !.limRate = live.rate, !.pc = "l.burst"]
       \/ /\ rp.pc = "l.burst"
          /\ rp' = [rp EXCEPT !.limBurst = live.burst, !.pc = "auth"]
    /\ UNCHANGED <<now, brVars, bhVars, rtVars, dlVars, current, live, rl, mt, mwVars, xtVars>>

\* auth.Middleware: cfg.Auth as captured at startup
auth_Middleware ==
    /\ rp.pc = "auth"
    /\ rp' = [rp EXCEPT !.auth = live.auth, !.pc = "router"]
    /\ UNCHANGED <<now, brVars, bhVars, rtVars, dlVars, current, live, rl, mt, mwVars, xtVars>>

\* Router.ServeHTTP: matchRoute reads rt.routes as built by New at startup
Router_matchRoute ==
    /\ rp.pc = "router"
    /\ rp' = [rp EXCEPT !.router = live.router, !.pc = "done"]
    /\ UNCHANGED <<now, brVars, bhVars, rtVars, dlVars, current, live, rl, mt, mwVars, xtVars>>

NextReload ==
    \/ Reload_Load
    \/ Limiter_UpdateConfig
    \/ OnReload_Breakers
    \/ OnReload_RoutesRef
    \/ Pipeline_Start
    \/ Logging_routeLogLevel
    \/ Limiter_limitsForPath
    \/ auth_Middleware
    \/ Router_matchRoute

SpecReload == Init /\ [][NextReload]_vars

\* the snapshots a finished request was processed with
SnapshotsSeen ==
    {rp.logRoutes, rp.limRoutes, rp.limRate, rp.limBurst, rp.auth, rp.router}

\* C11: a request that has passed the stack read its route table, limiter
\* routes, rate and burst, auth settings and log levels from one snapshot.
C11_OneSnapshot == rp.pc = "done" => Cardinality(SnapshotsSeen) = 1

\* C12: a Reload whose Load fails returns false, leaves Current() at the
\* snapshot it held before the call and invokes no callback (no component
\* and no breaker is updated), also after earlier successful reloads.
C12_FailedReload ==
    /\ [](rl.err =>
            /\ rl.pc = "idle"
            /\ rl.outcome = "false"
            /\ Current.id = rl.before
            /\ rl.calls = 0)
    /\ [][(rl' # rl /\ rl'.err) =>
            /\ Current' = Current
            /\ live' = live
            /\ br' = br]_vars

C12_Witness ==
    /\ rl.err
    /\ rl.outcome = "false"
    /\ rl.before > 0
    /\ live.logRoutes = rl.before
    /\ Current.id = rl.before


\* ---- properties of the router's breaker use and of its error responses ----

\* what the handler side sent to the client: the WriteHeader call and the body
HandlerHeader ==
    SelectSeq(client, LAMBDA e : e.by = "handler" /\ e.call = "WriteHeader")

HandlerBody ==
    LET w == SelectSeq(client, LAMBDA e : e.by = "handler" /\ e.call = "Write")
    IN IF w = <<>> THEN <<>> ELSE w[1].body

\* C13: when an admitted request is over, the breaker has received exactly
\* one record per backend attempt, in attempt order: RecordFailure for an
\* attempt that ended with 502, 503 or 504 (the final one included),
\* RecordSuccess for any other status.
C13_RecordPerAttempt ==
    (rq.pc = "done" /\ rq.allowed = "yes") =>
        /\ Len(rq.failed) = rq.hits
        /\ Len(rq.records) = Len(rq.failed)
        /\ \A i \in DOMAIN rq.records :
              rq.records[i] = IF rq.failed[i] THEN "RecordFailure"
                              ELSE "RecordSuccess"

\* upstream 502, 502, 200 with retry_attempts = 2
C13_Witness ==
    /\ rq.pc = "done"
    /\ rq.retryAttempts = 2
    /\ rq.failed = <<TRUE, TRUE, FALSE>>
    /\ rq.records = <<"RecordFailure", "RecordFailure", "RecordSuccess">>
    /\ rq.status = 200

\* C14: a loop iteration that begins with the request context cancelled
\* starts no backend attempt: it answers 504 REQUEST_CANCELLED and returns,
\* and the backend is not contacted again by that request.
C14_NoAttemptAfterCancel ==
    /\ [][(rq.pc = "check" /\ ctxErr /\ rq' # rq) =>
            /\ rq'.pc = "writing"
            /\ rq'.exit = "cancelled"
            /\ rq'.status = 504
            /\ rq'.body = <<"GATEWAY_REQUEST_CANCELLED">>
            /\ rq'.hits = rq.hits]_vars
    /\ [][(rq.exit = "cancelled" /\ rq'.exit = "cancelled") =>
            rq'.hits = rq.hits /\ rq'.records = rq.records]_vars

C14_Witness ==
    /\ rq.pc = "done"
    /\ rq.exit = "cancelled"
    /\ rq.hits >= 1
    /\ rq.hits < maxAttempts(rq.retryAttempts)
    /\ HandlerHeader # <<>>
    /\ HandlerHeader[1].status = 504
    /\ HandlerBody = <<"GATEWAY_REQUEST_CANCELLED">>

\* the request was refused by breaker.Allow and ServeHTTP is over
Rejected == rq.pc = "done" /\ rq.allowed = "no"

\* a request refused by Allow contacts no backend and records nothing
RejectedUntouched ==
    /\ [](rq.allowed = "no" =>
            rq.hits = 0 /\ rq.records = <<>> /\ rq.failed = <<>>)
    /\ [][(rq.allowed = "no" /\ rq'.allowed = "no") => br' = br]_vars

C16_AttemptTimeoutIs504 ==
    (rq.pc = "done" /\ rq.exit = "final" /\ rq.timedOut) =>
        client # <<>> /\ client[1].status = 504

\* the stages that can refuse a request before the breaker check
EarlyStages == {"BodyLimit", "RateLimit", "Auth", "match"}

\* C17: a request refused by the gateway with 401, 403, 404, 405, 413 or 429
\* has contacted no backend and has called neither Allow nor RecordSuccess
\* nor RecordFailure; none of its steps changes the breaker or its semaphore.
C17_ClientErrorNoBreaker ==
    /\ [](rq.exit = "client" =>
            /\ rq.status \in {401, 403, 404, 405, 413, 429}
            /\ rq.hits = 0
            /\ rq.allowed = "none"
            /\ rq.records = <<>>)
    /\ [][(rq.pc \in EarlyStages \/ rq.exit = "client") =>
            br' = br /\ sem' = sem]_vars

C17_Witness ==
    /\ rq.pc = "done"
    /\ rq.exit = "client"
    /\ rq.status = 405
    /\ br.state = StateOpen
    /\ HandlerHeader # <<>>
    /\ HandlerHeader[1].status = 405


\* ---- route matching: MatchesPrefix, Router.matchRoute, limitsForPath ----

\* strings are sequences of characters; "a" stands for any non-slash byte
Alphabet == {"/", "a"}

RECURSIVE StringsUpTo(_)
StringsUpTo(n) ==
    IF n = 0 THEN {<<>>}
    ELSE LET S == StringsUpTo(n - 1)
         IN S \cup {Append(x, c) : x \in S, c \in Alphabet}

\* request paths, and the path_prefix values that pass validation
Paths == StringsUpTo(MaxPathLen)
PathPrefixes == {x \in StringsUpTo(MaxPrefixLen) : x # <<>> /\ x[1] = "/"}

\* config.RateLimitConfig: the global limit, and a route's rate_override
\* (NoOverride stands for the nil pointer)
GlobalLimit == [rps |-> 100, burst |-> 100]
NoOverride == [rps |-> 0, burst |-> 0]
RateOverrides == {NoOverride, [rps |-> 1, burst |-> 1], [rps |-> 2, burst |-> 2]}

RouteConfigs == [PathPrefix : PathPrefixes, RateOverride : RateOverrides]

\* cfg.Routes after validation: at least one route, no duplicate path_prefix,
\* in any insertion order
RouteTables ==
    UNION {{t \in [1..n -> RouteConfigs] :
                \A i, j \in 1..n : i # j => t[i].PathPrefix # t[j].PathPrefix} :
           n \in 1..MaxRoutes}

\* strings.HasPrefix
HasPrefix(x, prefix) ==
    Len(prefix) <= Len(x) /\ SubSeq(x, 1, Len(prefix)) = prefix

MatchesPrefix_NoBoundary(path, prefix) ==
    IF prefix = <<>> THEN FALSE
    ELSE HasPrefix(path, prefix)

\* routing.MatchesPrefix (Go indexes from 0, sequences from 1)
MatchesPrefix(path, prefix) ==
    IF prefix = <<>> THEN FALSE
    ELSE IF ~HasPrefix(path, prefix) THEN FALSE
    ELSE IF Len(path) = Len(prefix) THEN TRUE
    ELSE IF prefix[Len(prefix)] = "/" THEN TRUE
    ELSE path[Len(prefix) + 1] = "/"

\* proxy.New: sort.Slice by descending prefix length; the sort is not stable,
\* so every order that is descending in length is a possible result
SortedByLength_AnyOrder(t) ==
    LET n == Len(t)
    IN {[i \in 1..n |-> t[f[i]]] :
            f \in {g \in [1..n -> 1..n] :
                      \A i, j \in 1..n : i # j => g[i] # g[j]}}

SortedByLength(t) ==
    LET n == Len(t)
    IN {s \in {[i \in 1..n |-> t[f[i]]] :
                  f \in {g \in [1..n -> 1..n] :
                            \A i, j \in 1..n : i # j => g[i] # g[j]}} :
           \A i, j \in 1..n :
               i < j => Len(s[i].PathPrefix) >= Len(s[j].PathPrefix)}

\* Router.matchRoute: the first route of rt.routes whose prefix matches
matchRoute(routes, path) ==
    LET M == {i \in DOMAIN routes : MatchesPrefix(path, routes[i].PathPrefix)}
    IN IF M = {} THEN [ok |-> FALSE, match |-> <<>>]
       ELSE LET first == CHOOSE i \in M : \A j \in M : i <= j
            IN [ok |-> TRUE, match |-> routes[first].PathPrefix]

\* the loop of Limiter.limitsForPath from route i on
RECURSIVE limitsLoop(_, _, _, _, _)
limitsLoop(routes, path, i, bestLen, bestOverride) ==
    IF i > Len(routes) THEN bestOverride
    ELSE LET route == routes[i]
         IN IF MatchesPrefix(path, route.PathPrefix)
               /\ Len(route.PathPrefix) > bestLen
            THEN limitsLoop(routes, path, i + 1, Len(route.PathPrefix),
                            IF route.RateOverride # NoOverride
                            THEN route.RateOverride ELSE bestOverride)
            ELSE limitsLoop(routes, path, i + 1, bestLen, bestOverride)

\* Limiter.limitsForPath over l.routes (kept in insertion order)
limitsForPath(routes, path) ==
    LET bestOverride == limitsLoop(routes, path, 1, 0, NoOverride)
    IN IF bestOverride # NoOverride THEN bestOverride ELSE GlobalLimit

\* the inputs of one call: a path with a prefix, or a path with a route table
InitRoutes ==
    /\ InitBr /\ InitBh /\ InitRt /\ InitDl /\ InitRl /\ InitMw
    /\ br = NewFailureRateBreaker(1, 50, 1, 1)
    /\ \/ \E p \in Paths, q \in Paths :
             mt = [op |-> "none", path |-> p, prefix |-> q, routes |-> <<>>,
                   ok |-> FALSE, match |-> <<>>, limit |-> NoOverride]
       \/ \E p \in Paths, t \in RouteTables :
             mt = [op |-> "none", path |-> p, prefix |-> <<>>, routes |-> t,
                   ok |-> FALSE, match |-> <<>>, limit |-> NoOverride]

Call_MatchesPrefix ==
    /\ mt.op = "none"
    /\ mt.routes = <<>>
    /\ mt' = [mt EXCEPT !.op = "MatchesPrefix",
                        !.ok = MatchesPrefix(mt.path, mt.prefix)]
    /\ UNCHANGED <<now, brVars, bhVars, rtVars, dlVars, rlVars, mwVars, xtVars>>

\* proxy.New(cfg.Routes, ...) followed by rt.matchRoute(path)
Call_matchRoute ==
    /\ mt.op = "none"
    /\ mt.routes # <<>>
    /\ \E sorted \in SortedByLength(mt.routes) :
          LET r == matchRoute(sorted, mt.path)
          IN mt' = [mt EXCEPT !.op = "matchRoute", !.ok = r.ok,
                              !.match = r.match]
    /\ UNCHANGED <<now, brVars, bhVars, rtVars, dlVars, rlVars, mwVars, xtVars>>

\* ratelimit.New(cfg.RateLimit, cfg.Routes, ...) followed by limitsForPath
Call_limitsForPath ==
    /\ mt.op = "none"
    /\ mt.routes # <<>>
    /\ mt' = [mt EXCEPT !.op = "limitsForPath",
                        !.limit = limitsForPath(mt.routes, mt.path)]
    /\ UNCHANGED <<now, brVars, bhVars, rtVars, dlVars, rlVars, mwVars, xtVars>>

\* strings.TrimPrefix
TrimPrefix(x, prefix) ==
    IF HasPrefix(x, prefix) THEN SubSeq(x, Len(prefix) + 1, Len(x)) ELSE x

\* Router.ServeHTTP with route.StripPrefix: r.URL.Path after the strip
stripPrefix_KeepEmpty(path, prefix) == TrimPrefix(path, prefix)

stripPrefix(path, prefix) ==
    LET p == TrimPrefix(path, prefix)
    IN IF p = <<>> THEN <<"/">> ELSE p

\* the paths of the backend URLs a route may name: none, "/a", "/a/"
BackendPaths == {<<>>, <<"/", "a">>, <<"/", "a", "/">>}

\* the director of httputil.NewSingleHostReverseProxy(target): the path of
\* the outgoing request is the target's path and the request's path joined
\* by a single slash
singleJoiningSlash(a, b) ==
    LET aslash == a # <<>> /\ a[Len(a)] = "/"
        bslash == b # <<>> /\ b[1] = "/"
    IN IF aslash /\ bslash THEN a \o Tail(b)
       ELSE IF ~aslash /\ ~bslash THEN a \o <<"/">> \o b
       ELSE a \o b

\* a request matched to a route with strip_prefix
Call_stripPrefix ==
    /\ mt.op = "none"
    /\ mt.routes = <<>>
    /\ mt.prefix \in PathPrefixes
    /\ MatchesPrefix(mt.path, mt.prefix)
    /\ mt' = [mt EXCEPT !.op = "stripPrefix",
                        !.match = stripPrefix(mt.path, mt.prefix)]
    /\ UNCHANGED <<now, brVars, bhVars, rtVars, dlVars, rlVars, mwVars, xtVars>>

NextRoutes ==
    \/ Call_MatchesPrefix
    \/ Call_matchRoute
    \/ Call_limitsForPath
    \/ Call_stripPrefix

SpecRoutes == InitRoutes /\ [][NextRoutes]_vars

\* the boundary rule: prefix is non-empty, path starts with prefix, and path
\* ends there, or prefix ends with "/", or the next character of path is "/"
BoundaryMatch(path, prefix) ==
    /\ prefix # <<>>
    /\ HasPrefix(path, prefix)
    /\ \/ path = prefix
       \/ prefix[Len(prefix)] = "/"
       \/ path[Len(prefix) + 1] = "/"

\* the routes of the table whose prefix boundary-matches the path
Matching(routes, path) ==
    {i \in DOMAIN routes : BoundaryMatch(path, routes[i].PathPrefix)}

\* C18: MatchesPrefix(path, prefix) is true exactly when the boundary rule
\* holds, for all strings path and prefix (the empty prefix never matches).
C18_MatchesPrefixIff ==
    mt.op = "MatchesPrefix" => (mt.ok <=> BoundaryMatch(mt.path, mt.prefix))

\* path continues after the prefix with a character that is no boundary
C18_Witness ==
    /\ mt.op = "MatchesPrefix"
    /\ ~mt.ok
    /\ mt.prefix # <<>>
    /\ HasPrefix(mt.path, mt.prefix)
    /\ Len(mt.path) > Len(mt.prefix)

\* C19: for every path and route table in any insertion order, matchRoute
\* reports no match exactly when no prefix boundary-matches the path, and
\* otherwise returns a boundary-matching route of maximal prefix length.
C19_LongestMatch ==
    mt.op = "matchRoute" =>
        LET M == Matching(mt.routes, mt.path)
        IN /\ mt.ok <=> M # {}
           /\ mt.ok =>
                /\ \E i \in M : mt.routes[i].PathPrefix = mt.match
                /\ \A j \in M :
                      Len(mt.routes[j].PathPrefix) <= Len(mt.match)

\* the shorter matching route was inserted first and the longer one is found
C19_Witness ==
    /\ mt.op = "matchRoute"
    /\ mt.ok
    /\ Cardinality(Matching(mt.routes, mt.path)) >= 2
    /\ 1 \in Matching(mt.routes, mt.path)
    /\ mt.routes[1].PathPrefix # mt.match

\* C20: the limit applied is the rate_override of the longest route whose
\* prefix boundary-matches the path, and the global {rps, burst} when that
\* route has no rate_override or when no route matches.
C20_LongestRouteLimit ==
    mt.op = "limitsForPath" =>
        LET M == Matching(mt.routes, mt.path)
        IN IF M = {} THEN mt.limit = GlobalLimit
           ELSE LET longest == CHOOSE i \in M : \A j \in M :
                                   Len(mt.routes[j].PathPrefix) <=
                                       Len(mt.routes[i].PathPrefix)
                IN mt.limit =
                      IF mt.routes[longest].RateOverride # NoOverride
                      THEN mt.routes[longest].RateOverride
                      ELSE GlobalLimit

\* ---- the request filters as functions: auth.Middleware ----

\* the scopes a token may carry and a config may require
AllScopes == 1..MaxScopes

\* the Authorization credentials: nothing after the scheme, a string that is
\* no JWT, or a JWT with the facts jwt.Parse looks at
Tokens ==
    {[kind |-> "blank", sig |-> FALSE, alg |-> "none", iss |-> "other",
      aud |-> "other", exp |-> "missing", scope |-> {}],
     [kind |-> "garbage", sig |-> FALSE, alg |-> "none", iss |-> "other",
      aud |-> "other", exp |-> "missing", scope |-> {}]}
    \cup [kind : {"jwt"}, sig : BOOLEAN, alg : {"HS256", "HS512", "none"},
          iss : {"gw", "other"}, aud : {"api", "other"},
          exp : {"valid", "expired", "missing"}, scope : SUBSET AllScopes]

\* the credentials tried with every other form of the header: a token that
\* passes jwt.Parse, with every scope or with none, and the two non-tokens
FewTokens ==
    {t \in Tokens :
        \/ t.kind # "jwt"
        \/ /\ t.sig /\ t.alg = "HS256" /\ t.iss = "gw" /\ t.aud = "api"
           /\ t.exp = "valid" /\ t.scope \in {{}, AllScopes}}

\* the Authorization header: the scheme word, whether a space follows it,
\* and what comes after the space
AuthHeaders ==
    [scheme : {"", "Bearer", "bearer", "Basic"}, sep : BOOLEAN, cred : Tokens]

AuthConfigs ==
    [Enabled : BOOLEAN, Issuer : {"", "gw"}, Audience : {"", "api"},
     Scopes : SUBSET AllScopes]

\* strings.EqualFold(parts[0], "Bearer")
EqualFoldBearer(scheme) == scheme \in {"Bearer", "bearer"}

extractBearerToken(h) ==
    IF h.scheme = "" /\ ~h.sep THEN [ok |-> FALSE, token |-> h.cred]
    ELSE IF ~h.sep \/ ~EqualFoldBearer(h.scheme)
         THEN [ok |-> FALSE, token |-> h.cred]
    ELSE IF h.cred.kind = "blank" THEN [ok |-> FALSE, token |-> h.cred]
    ELSE [ok |-> TRUE, token |-> h.cred]

\* jwt.Parse with WithValidMethods(HS256), WithIssuer, WithAudience and
\* WithExpirationRequired: nil error iff the token passes all of them
jwtParse(tok, cfg) ==
    /\ tok.kind = "jwt"
    /\ tok.alg = "HS256"
    /\ tok.sig
    /\ cfg.Issuer # "" => tok.iss = cfg.Issuer
    /\ cfg.Audience # "" => tok.aud = cfg.Audience
    /\ tok.exp = "valid"

\* validateToken: "invalid" for a jwt.Parse error, "scope" for a ScopeError
validateToken(tok, cfg) ==
    IF ~jwtParse(tok, cfg) THEN [err |-> "invalid", claims |-> {}]
    ELSE IF \E required \in cfg.Scopes : required \notin tok.scope
         THEN [err |-> "scope", claims |-> {}]
    ELSE [err |-> "nil", claims |-> tok.scope]

isScopeError_Never(err) == FALSE

isScopeError(err) == err = "scope"

\* the error code that goes with each rejection
AuthErrorCode(reason) ==
    CASE reason = "missing_token" -> "GATEWAY_AUTH_MISSING_TOKEN"
      [] reason = "invalid_token" -> "GATEWAY_AUTH_INVALID_TOKEN"
      [] reason = "insufficient_scope" -> "GATEWAY_AUTH_INSUFFICIENT_SCOPE"

writeAuthError(status, reason) ==
    [status |-> status, code |-> AuthErrorCode(reason), next |-> FALSE,
     validated |-> reason # "missing_token", claims |-> "none"]

\* auth.Middleware's handler; next: the next stage is called; validated:
\* validateToken has run; claims: the Claims put into the request context
auth_Handler(cfg, routeRequiresAuth, h) ==
    IF ~cfg.Enabled \/ ~routeRequiresAuth
    THEN [status |-> 0, code |-> "", next |-> TRUE, validated |-> FALSE,
          claims |-> "none"]
    ELSE LET t == extractBearerToken(h)
             v == validateToken(t.token, cfg)
         IN IF ~t.ok THEN writeAuthError(401, "missing_token")
            ELSE IF v.err # "nil"
                 THEN IF isScopeError(v.err)
                      THEN writeAuthError(403, "insufficient_scope")
                      ELSE writeAuthError(401, "invalid_token")
            ELSE [status |-> 0, code |-> "", next |-> TRUE,
                  validated |-> TRUE, claims |-> v.claims]

\* ---- the request filters as functions: Limiter.clientIP ----

\* the addresses seen as peers and in X-Forwarded-For, and the networks that
\* may be listed in trusted_proxies
Addrs == {"10.1.2.3", "10.1.2.4", "203.0.113.9", "198.51.100.7"}
Cidrs == {"10.0.0.0/8", "203.0.113.0/24"}

\* an entry of X-Forwarded-For after strings.TrimSpace: an address, nothing,
\* or a word that is no address
XffEntries == Addrs \cup {"", "unknown"}

\* the header split at its commas; <<>> and <<"">> are the empty header
XffHeaders == UNION {[1..n -> XffEntries] : n \in 0..MaxHops}

\* net.ParseIP(ipStr) != nil
ParseIP(ipStr) == ipStr \in Addrs

\* (*net.IPNet).Contains
Contains(cidr, ip) ==
    \/ cidr = "10.0.0.0/8" /\ ip \in {"10.1.2.3", "10.1.2.4"}
    \/ cidr = "203.0.113.0/24" /\ ip = "203.0.113.9"

isTrusted(trustedCIDRs, ipStr) ==
    IF ~ParseIP(ipStr) THEN FALSE
    ELSE \E cidr \in trustedCIDRs : Contains(cidr, ipStr)

\* for i := len(parts) - 1; i >= 0; i-- : the first entry that is not empty
\* and not trusted, "" when the loop ends without one
RECURSIVE xffWalk(_, _, _)
xffWalk(trustedCIDRs, parts, i) ==
    IF i < 1 THEN ""
    ELSE IF parts[i] # "" /\ ~isTrusted(trustedCIDRs, parts[i]) THEN parts[i]
    ELSE xffWalk(trustedCIDRs, parts, i - 1)

\* r.Header.Get("X-Forwarded-For") != ""
xffPresent(parts) == parts # <<>> /\ parts # <<"">>

clientIP(trustedCIDRs, peerIP, parts) ==
    IF trustedCIDRs # {} /\ isTrusted(trustedCIDRs, peerIP)
          /\ xffPresent(parts)
          /\ xffWalk(trustedCIDRs, parts, Len(parts)) # ""
    THEN xffWalk(trustedCIDRs, parts, Len(parts))
    ELSE peerIP

\* ---- the request filters as functions: the Retry-After header ----

\* requests_per_second is a positive float64: here the fractions num/den
\* and the default of 100
Rates ==
    [num : 1..MaxRate, den : 1..MaxRate] \cup {[num |-> 100, den |-> 1]}

\* strconv.FormatFloat(x, 'f', 0, 64) for x = n/d >= 0: the nearest integer,
\* a tie going to the even one
FormatFloat0(n, d) ==
    LET q == n \div d
        r == n % d
    IN IF 2 * r < d THEN q
       ELSE IF 2 * r > d THEN q + 1
       ELSE IF q % 2 = 0 THEN q ELSE q + 1

\* retryAfter := strconv.FormatFloat(1.0/float64(rateLimit), 'f', 0, 64)
retryAfter(rateLimit) == FormatFloat0(rateLimit.den, rateLimit.num)

\* ---- the filters called on any input ----

InitFilters ==
    /\ InitBr /\ InitBh /\ InitRt /\ InitDl /\ InitRl /\ InitMt
    /\ br = NewFailureRateBreaker(1, 50, 1, 1)
    /\ pl = NoStages
    /\ lm = NoLimiter
    /\ InitXt
    /\ \/ \E cfg \in AuthConfigs, req \in BOOLEAN, h \in AuthHeaders :
             /\ (h.scheme # "Bearer" \/ ~h.sep) => h.cred \in FewTokens
             /\ ft = [fn |-> "auth", called |-> FALSE, cfg |-> cfg,
                      required |-> req, header |-> h, out |-> NoOutcome]
       \/ \E rateLimit \in Rates :
             ft = [fn |-> "retryAfter", called |-> FALSE,
                   rate |-> rateLimit, out |-> 0]
       \/ \E t \in SUBSET Cidrs, peer \in Addrs, xff \in XffHeaders :
             ft = [fn |-> "clientIP", called |-> FALSE, trustedCIDRs |-> t,
                   peer |-> peer, xff |-> xff, out |-> ""]

Call_auth ==
    /\ ft.fn = "auth"
    /\ ~ft.called
    /\ ft' = [ft EXCEPT !.called = TRUE,
                        !.out = auth_Handler(ft.cfg, ft.required, ft.header)]
    /\ UNCHANGED <<now, brVars, bhVars, rtVars, dlVars, rlVars, mt, pl, lm, xtVars>>

Call_clientIP ==
    /\ ft.fn = "clientIP"
    /\ ~ft.called
    /\ ft' = [ft EXCEPT !.called = TRUE,
                        !.out = clientIP(ft.trustedCIDRs, ft.peer, ft.xff)]
    /\ UNCHANGED <<now, brVars, bhVars, rtVars, dlVars, rlVars, mt, pl, lm, xtVars>>

\* Limiter.Middleware on a rejection: the Retry-After header it sets
Call_retryAfter ==
    /\ ft.fn = "retryAfter"
    /\ ~ft.called
    /\ ft' = [ft EXCEPT !.called = TRUE, !.out = retryAfter(ft.rate)]
    /\ UNCHANGED <<now, brVars, bhVars, rtVars, dlVars, rlVars, mt, pl, lm, xtVars>>

NextFilters ==
    \/ Call_auth
    \/ Call_clientIP
    \/ Call_retryAfter

SpecFilters == InitFilters /\ [][NextFilters]_vars

\* the header carries a well-formed Bearer credential
WellFormedBearer(h) ==
    /\ h.sep
    /\ h.scheme \in {"Bearer", "bearer"}
    /\ h.cred.kind # "blank"

\* the token passes signature, algorithm, issuer, audience and expiration
TokenValid(tok, cfg) ==
    /\ tok.kind = "jwt" /\ tok.sig /\ tok.alg = "HS256" /\ tok.exp = "valid"
    /\ cfg.Issuer = "" \/ tok.iss = cfg.Issuer
    /\ cfg.Audience = "" \/ tok.aud = cfg.Audience

UntrustedIP(trustedCIDRs, e) ==
    e \in Addrs /\ \A cidr \in trustedCIDRs : ~Contains(cidr, e)

\* the positions of X-Forwarded-For that hold an IP outside every trusted CIDR
UntrustedHops(trustedCIDRs, parts) ==
    {i \in DOMAIN parts : UntrustedIP(trustedCIDRs, parts[i])}

\* the peer is inside one of the trusted CIDRs
PeerTrusted(trustedCIDRs, peerIP) ==
    \E cidr \in trustedCIDRs : Contains(cidr, peerIP)

\* the rightmost element of a non-empty set of positions
Rightmost(S) == CHOOSE i \in S : \A j \in S : j <= i

\* C21: the client IP of a request is the first entry of X-Forwarded-For,
\* from the right, that is an IP outside every trusted CIDR, when
\* trusted_proxies is non-empty and contains the peer; it is the peer address
\* in every other case (empty list, untrusted peer, no X-Forwarded-For, every
\* hop trusted), so that an untrusted peer gets one bucket whatever it sends.
C21_ClientIP ==
    (ft.fn = "clientIP" /\ ft.called) =>
        LET hops == UntrustedHops(ft.trustedCIDRs, ft.xff)
        IN IF PeerTrusted(ft.trustedCIDRs, ft.peer) /\ hops # {}
           THEN ft.out = ft.xff[Rightmost(hops)]
           ELSE ft.out = ft.peer

\* ceil(1/rps) for rps = num/den
CeilOfInverse(rateLimit) ==
    (rateLimit.den + rateLimit.num - 1) \div rateLimit.num

\* C23: on a rate-limit rejection the Retry-After header is ceil(1/rps)
\* seconds, rps being the rate applied to the request, and so at least 1
\* (1 when rps = 100).
C23_RetryAfterCeil ==
    (ft.fn = "retryAfter" /\ ft.called) =>
        /\ ft.out = CeilOfInverse(ft.rate)
        /\ ft.out >= 1

\* ---- the middleware stack assembled by main ----

\* the wrapping statements of main, in program order: each wraps the handler
\* built so far, the router being the innermost
Wrappers_AuthOutside ==
    <<"RateLimit", "Auth", "BodyLimit", "CORS", "Logging", "SecurityHeaders",
      "Deadline", "RequestID", "Recovery">>

Wrappers ==
    <<"Auth", "RateLimit", "BodyLimit", "CORS", "Logging", "SecurityHeaders",
      "Deadline", "RequestID", "Recovery">>

\* one wrapping statement: the new handler runs first and calls the old one;
\* Deadline(timeout) with timeout <= 0 returns next itself
Wrap(name, globalTimeout, handler) ==
    IF name = "Deadline" /\ globalTimeout <= 0 THEN handler
    ELSE <<name>> \o handler

\* the handler after the first n wrapping statements, as the stages it runs
RECURSIVE Assemble(_, _)
Assemble(n, globalTimeout) ==
    IF n = 0 THEN <<"Router">>
    ELSE Wrap(Wrappers[n], globalTimeout, Assemble(n - 1, globalTimeout))

\* server.global_timeout_ms: 0 (the default, deadline disabled) or positive
GlobalTimeouts == {0, 1}

\* what the auth stage may answer
AuthOutcomes ==
    {auth_Handler(cfg, req, h) :
        cfg \in {c \in AuthConfigs : c.Issuer = "" /\ c.Audience = ""},
        req \in BOOLEAN,
        h \in {x \in AuthHeaders : x.scheme = "Bearer" /\ x.sep}}

\* what the router may do: no route, method not allowed, breaker open, proxied
RouterOutcomes ==
    {[status |-> 404, breaker |-> FALSE], [status |-> 405, breaker |-> FALSE],
     [status |-> 503, breaker |-> TRUE], [status |-> 200, breaker |-> TRUE],
     [status |-> 502, breaker |-> TRUE]}

\* the stage about to run
AtStage(name) ==
    /\ pl.pc = "run"
    /\ pl.at \in 1..Len(pl.chain)
    /\ pl.chain[pl.at] = name

\* the stage runs and calls next.ServeHTTP
CallNext(name) ==
    [pl EXCEPT !.trace = Append(pl.trace, name), !.at = pl.at + 1]

\* the stage runs, answers the request itself and returns
ShortCircuit(name, status) ==
    [pl EXCEPT !.trace = Append(pl.trace, name), !.pc = "done",
               !.status = status, !.by = name]

\* a request enters the handler main has assembled
Serve ==
    /\ pl.pc \in {"idle", "done"}
    /\ \E t \in GlobalTimeouts, method \in {"GET", "OPTIONS"},
          tooLarge \in BOOLEAN, o \in AuthOutcomes :
          pl' = [NoStages EXCEPT !.pc = "run", !.at = 1,
                                 !.chain = Assemble(Len(Wrappers), t),
                                 !.globalTimeout = t, !.method = method,
                                 !.tooLarge = tooLarge, !.auth = o]
    /\ UNCHANGED <<now, brVars, bhVars, rtVars, dlVars, rlVars, mt, lm, ft, xtVars>>

\* Recovery: defer recover(), then next
Stage_Recovery ==
    /\ AtStage("Recovery")
    /\ pl' = CallNext("Recovery")
    /\ UNCHANGED <<now, brVars, bhVars, rtVars, dlVars, rlVars, mt, lm, ft, xtVars>>

\* RequestID: sets X-Request-ID, then next
Stage_RequestID ==
    /\ AtStage("RequestID")
    /\ pl' = CallNext("RequestID")
    /\ UNCHANGED <<now, brVars, bhVars, rtVars, dlVars, rlVars, mt, lm, ft, xtVars>>

\* Deadline: starts next in its goroutine
Stage_Deadline ==
    /\ AtStage("Deadline")
    /\ pl' = CallNext("Deadline")
    /\ UNCHANGED <<now, brVars, bhVars, rtVars, dlVars, rlVars, mt, lm, ft, xtVars>>

\* SecurityHeaders: sets the headers, then next
Stage_SecurityHeaders ==
    /\ AtStage("SecurityHeaders")
    /\ pl' = CallNext("SecurityHeaders")
    /\ UNCHANGED <<now, brVars, bhVars, rtVars, dlVars, rlVars, mt, lm, ft, xtVars>>

\* Logging: next, at any log level
Stage_Logging ==
    /\ AtStage("Logging")
    /\ pl' = CallNext("Logging")
    /\ UNCHANGED <<now, brVars, bhVars, rtVars, dlVars, rlVars, mt, lm, ft, xtVars>>

\* CORS: answers OPTIONS with 204, passes every other method on
Stage_CORS ==
    /\ AtStage("CORS")
    /\ pl' = IF pl.method = "OPTIONS" THEN ShortCircuit("CORS", 204)
             ELSE CallNext("CORS")
    /\ UNCHANGED <<now, brVars, bhVars, rtVars, dlVars, rlVars, mt, lm, ft, xtVars>>

\* BodyLimit: 413 when Content-Length exceeds the limit
Stage_BodyLimit ==
    /\ AtStage("BodyLimit")
    /\ pl' = IF pl.tooLarge THEN ShortCircuit("BodyLimit", 413)
             ELSE CallNext("BodyLimit")
    /\ UNCHANGED <<now, brVars, bhVars, rtVars, dlVars, rlVars, mt, lm, ft, xtVars>>

\* Limiter.Middleware: 429 when the bucket refuses
Stage_RateLimit ==
    /\ AtStage("RateLimit")
    /\ \E allow \in BOOLEAN :
          pl' = IF ~allow THEN ShortCircuit("RateLimit", 429)
                ELSE CallNext("RateLimit")
    /\ UNCHANGED <<now, brVars, bhVars, rtVars, dlVars, rlVars, mt, lm, ft, xtVars>>

\* auth.Middleware
Stage_Auth ==
    /\ AtStage("Auth")
    /\ pl' = IF pl.auth.next
             THEN [CallNext("Auth") EXCEPT !.validated = pl.auth.validated]
             ELSE [ShortCircuit("Auth", pl.auth.status) EXCEPT
                      !.validated = pl.auth.validated]
    /\ UNCHANGED <<now, brVars, bhVars, rtVars, dlVars, rlVars, mt, lm, ft, xtVars>>

\* Router.ServeHTTP, the innermost handler
Stage_Router ==
    /\ AtStage("Router")
    /\ \E o \in RouterOutcomes :
          pl' = [ShortCircuit("Router", o.status) EXCEPT
                    !.breaker = o.breaker]
    /\ UNCHANGED <<now, brVars, bhVars, rtVars, dlVars, rlVars, mt, lm, ft, xtVars>>

InitPipeline ==
    /\ InitBr /\ InitBh /\ InitRt /\ InitDl /\ InitRl /\ InitMt /\ InitMw
    /\ br = NewFailureRateBreaker(1, 50, 1, 1)

NextPipeline ==
    \/ Serve
    \/ Stage_Recovery
    \/ Stage_RequestID
    \/ Stage_Deadline
    \/ Stage_SecurityHeaders
    \/ Stage_Logging
    \/ Stage_CORS
    \/ Stage_BodyLimit
    \/ Stage_RateLimit
    \/ Stage_Auth
    \/ Stage_Router

SpecPipeline == InitPipeline /\ [][NextPipeline]_vars

\* the order of the stages
StageOrder ==
    <<"Recovery", "RequestID", "Deadline", "SecurityHeaders", "Logging",
      "CORS", "BodyLimit", "RateLimit", "Auth", "Router">>

\* the stages that exist under a global timeout
Installed(globalTimeout) ==
    SelectSeq(StageOrder, LAMBDA x : x # "Deadline" \/ globalTimeout > 0)

IsPrefix(a, b) == Len(a) <= Len(b) /\ a = SubSeq(b, 1, Len(a))

\* the stages that ran are an initial part of the order, the stage that
\* answered is the last one that ran, a 429 excludes token validation and
\* an answer by Auth excludes the router and every breaker
ShortCircuitStops(order) ==
    pl.pc # "idle" =>
        /\ IsPrefix(pl.trace, order)
        /\ pl.pc = "done" =>
              pl.trace # <<>> /\ pl.trace[Len(pl.trace)] = pl.by
        /\ pl.status = 429 =>
              /\ pl.by = "RateLimit"
              /\ ~pl.validated
              /\ \A i \in DOMAIN pl.trace : pl.trace[i] \notin {"Auth", "Router"}
        /\ pl.by = "Auth" =>
              /\ ~pl.breaker
              /\ \A i \in DOMAIN pl.trace : pl.trace[i] # "Router"

\* C26 as stated: for every request the stages run in the order Recovery,
\* RequestID, Deadline, SecurityHeaders, Logging, CORS, BodyLimit, RateLimit,
\* Auth, Router, and a stage that short-circuits prevents every later stage.
C26_StageOrder == ShortCircuitStops(StageOrder)

\* C26, amended: the same, the Deadline stage being part of the order only
\* when the global timeout is positive (with 0 it is not installed).
C26_InstalledStageOrder ==
    /\ [](ShortCircuitStops(Installed(pl.globalTimeout)))
    /\ [][pl.pc = "run" =>
            \/ pl'.trace = Append(pl.trace, pl.chain[pl.at])
            \/ pl' = pl]_vars

C26_Witness ==
    /\ pl.pc = "done"
    /\ pl.globalTimeout > 0
    /\ pl.by = "Auth"
    /\ pl.status = 403
    /\ Len(pl.trace) = 9

\* ---- the rate limiter: buckets, sweep and UpdateConfig ----

\* tokens added to a bucket of this rate in one tick
RefillPerTick(rate) == (SecondsPerTick * rate.num) \div rate.den

Min(a, b) == IF a < b THEN a ELSE b

\* rate.NewLimiter(r, burst): a full bucket
NewBucket(key, t, epoch) ==
    [alive |-> TRUE, key |-> key, tokens |-> key.burst, lastSeen |-> t,
     lastUsed |-> t, fresh |-> TRUE, admitted |-> 0, epoch |-> epoch]

\* (*rate.Limiter).Allow: one token is taken if there is one
Bucket_Allow_OffByOne(b) ==
    IF b.tokens >= 0
    THEN [ok |-> TRUE, b |-> [b EXCEPT !.tokens = IF b.tokens > 0
                                                  THEN b.tokens - 1 ELSE 0,
                                      !.admitted = IF b.fresh
                                                   THEN b.admitted + 1 ELSE 0]]
    ELSE [ok |-> FALSE, b |-> b]

Bucket_Allow(b) ==
    IF b.tokens >= 1
    THEN [ok |-> TRUE, b |-> [b EXCEPT !.tokens = b.tokens - 1,
                                      !.admitted = IF b.fresh
                                                   THEN b.admitted + 1 ELSE 0]]
    ELSE [ok |-> FALSE, b |-> b]

\* the tokens a bucket has gained when the clock has moved by one tick
Bucket_Advance(b) ==
    IF ~b.alive \/ RefillPerTick(b.key.rate) = 0 THEN b
    ELSE [b EXCEPT !.tokens = Min(b.key.burst,
                                  b.tokens + RefillPerTick(b.key.rate)),
                   !.fresh = FALSE, !.admitted = 0]

\* the buckets that the map or a request still points to
Referenced(clients, reqs) ==
    {clients[k] : k \in ClientKeys} \cup {reqs[r].id : r \in DOMAIN reqs}

\* a bucket nothing points to any more is collected
Collect(heap, clients, reqs) ==
    [i \in BucketIds |->
        IF i \in Referenced(clients, reqs) THEN heap[i] ELSE NoClient]

\* a free slot of the heap
FreeIds == {i \in BucketIds : ~lm.heap[i].alive}

\* time.Since(c.lastSeen) > d
Since(t, lastSeen) == t - lastSeen

\* Limiter.UpdateConfig's last statement
ClearClients_Keep(clients) == clients

ClearClients(clients) == [k \in ClientKeys |-> 0]

\* Limiter.Middleware: clientIP and limitsForPath, which reads l.rate and
\* l.burst without the lock
Limiter_Start(r, ip) ==
    /\ lm.reqs[r].pc \in {"idle", "done"}
    /\ LET q == [NoLimiterRequest EXCEPT
                    !.pc = "lookup",
                    !.key = [ip |-> ip, rate |-> lm.rate, burst |-> lm.burst],
                    !.epoch = lm.updates,
                    !.raced = lm.mu = "update"]
           reqs == [lm.reqs EXCEPT ![r] = q]
       IN lm' = [lm EXCEPT !.reqs = reqs,
                           !.heap = Collect(lm.heap, lm.clients, reqs)]
    /\ UNCHANGED <<now, brVars, bhVars, rtVars, dlVars, rlVars, mt, pl, ft, xtVars>>

\* getLimiter, fast path under the read lock
Limiter_getLimiter(r) ==
    /\ lm.reqs[r].pc = "lookup"
    /\ lm.mu = "free"
    /\ LET q == lm.reqs[r]
           id == lm.clients[q.key]
       IN IF id # 0
          THEN lm' = [lm EXCEPT
                  !.reqs[r].id = id,
                  !.reqs[r].pc =
                      IF Since(lm.clock, lm.heap[id].lastSeen) > TicksPerMinute
                      THEN "refresh" ELSE "allow",
                  !.heap[id].lastUsed = lm.clock]
          ELSE lm' = [lm EXCEPT !.reqs[r].pc = "insert"]
    /\ UNCHANGED <<now, brVars, bhVars, rtVars, dlVars, rlVars, mt, pl, ft, xtVars>>

\* getLimiter: c.lastSeen = time.Now() under the write lock
Limiter_refresh(r) ==
    /\ lm.reqs[r].pc = "refresh"
    /\ lm.mu = "free"
    /\ lm' = [lm EXCEPT !.heap[lm.reqs[r].id].lastSeen = lm.clock,
                        !.reqs[r].pc = "allow"]
    /\ UNCHANGED <<now, brVars, bhVars, rtVars, dlVars, rlVars, mt, pl, ft, xtVars>>

\* getLimiter's slow path without the second look at the map
Limiter_insert_NoRecheck(r) ==
    /\ lm.reqs[r].pc = "insert"
    /\ lm.mu = "free"
    /\ FreeIds # {}
    /\ LET q == lm.reqs[r]
           new == CHOOSE i \in FreeIds : \A j \in FreeIds : i <= j
       IN lm' = [lm EXCEPT
             !.reqs[r].id = new,
             !.reqs[r].pc = "allow",
             !.clients[q.key] = new,
             !.heap[new] = NewBucket(q.key, lm.clock, lm.updates)]
    /\ UNCHANGED <<now, brVars, bhVars, rtVars, dlVars, rlVars, mt, pl, ft, xtVars>>

\* getLimiter, slow path under the write lock: check again, then insert
Limiter_insert(r) ==
    /\ lm.reqs[r].pc = "insert"
    /\ lm.mu = "free"
    /\ LET q == lm.reqs[r]
           id == lm.clients[q.key]
       IN IF id # 0
          THEN lm' = [lm EXCEPT !.reqs[r].id = id,
                                !.reqs[r].pc = "allow",
                                !.heap[id].lastSeen = lm.clock,
                                !.heap[id].lastUsed = lm.clock]
          ELSE /\ FreeIds # {}
               /\ LET new == CHOOSE i \in FreeIds : \A j \in FreeIds : i <= j
                  IN lm' = [lm EXCEPT
                        !.reqs[r].id = new,
                        !.reqs[r].pc = "allow",
                        !.clients[q.key] = new,
                        !.heap[new] = NewBucket(q.key, lm.clock, lm.updates)]
    /\ UNCHANGED <<now, brVars, bhVars, rtVars, dlVars, rlVars, mt, pl, ft, xtVars>>

\* Limiter.Middleware: limiter.Allow(), then 429 or next.ServeHTTP
Limiter_Allow(r) ==
    /\ lm.reqs[r].pc = "allow"
    /\ LET id == lm.reqs[r].id
           a == Bucket_Allow(lm.heap[id])
       IN lm' = [lm EXCEPT !.heap[id] = a.b,
                           !.reqs[r].pc = "done",
                           !.reqs[r].out = IF a.ok THEN "next" ELSE "429"]
    /\ UNCHANGED <<now, brVars, bhVars, rtVars, dlVars, rlVars, mt, pl, ft, xtVars>>

\* Limiter.UpdateConfig: Lock, l.rate = ...
UpdateConfig_Rate ==
    /\ lm.mu = "free"
    /\ lm.updates < MaxUpdates
    /\ \E cfg \in LimitConfigs :
          lm' = [lm EXCEPT !.mu = "update", !.pending = cfg,
                           !.rate = cfg.rate]
    /\ UNCHANGED <<now, brVars, bhVars, rtVars, dlVars, rlVars, mt, pl, ft, xtVars>>

\* Limiter.UpdateConfig: l.burst = ..., l.clients = make(...), Unlock
UpdateConfig_Clear ==
    /\ lm.mu = "update"
    /\ LET clients == ClearClients(lm.clients)
       IN lm' = [lm EXCEPT !.mu = "free", !.burst = lm.pending.burst,
                           !.cfg = lm.pending,
                           !.updates = lm.updates + 1,
                           !.clients = clients,
                           !.heap = Collect(lm.heap, clients, lm.reqs)]
    /\ UNCHANGED <<now, brVars, bhVars, rtVars, dlVars, rlVars, mt, pl, ft, xtVars>>

\* the clients the sweep deletes
Stale(t) ==
    {k \in ClientKeys :
        /\ lm.clients[k] # 0
        /\ Since(t, lm.heap[lm.clients[k]].lastSeen) > 3 * TicksPerMinute}

\* Limiter.cleanup: the ticker fires every minute
Limiter_cleanup ==
    /\ lm.mu = "free"
    /\ lm.clock > 0
    /\ lm.clock % TicksPerMinute = 0
    /\ Stale(lm.clock) # {}
    /\ LET clients == [k \in ClientKeys |->
                          IF k \in Stale(lm.clock) THEN 0 ELSE lm.clients[k]]
       IN lm' = [lm EXCEPT !.clients = clients,
                           !.heap = Collect(lm.heap, clients, lm.reqs)]
    /\ UNCHANGED <<now, brVars, bhVars, rtVars, dlVars, rlVars, mt, pl, ft, xtVars>>

\* half a minute passes
Limiter_Tick ==
    /\ lm.clock < MaxClock
    /\ lm' = [lm EXCEPT !.clock = lm.clock + 1,
                        !.heap = [i \in BucketIds |-> Bucket_Advance(lm.heap[i])]]
    /\ UNCHANGED <<now, brVars, bhVars, rtVars, dlVars, rlVars, mt, pl, ft, xtVars>>

InitLimiter ==
    /\ InitBr /\ InitBh /\ InitRt /\ InitDl /\ InitRl /\ InitMt
    /\ br = NewFailureRateBreaker(1, 50, 1, 1)
    /\ pl = NoStages
    /\ ft = NoCall
    /\ InitXt
    /\ \E cfg \in LimitConfigs : lm = NewLimiter(cfg)

\* requests of two clients and reloads, while no time passes
NextLimiter ==
    \/ \E r \in Requests, ip \in ClientIPs : Limiter_Start(r, ip)
    \/ \E r \in Requests : Limiter_getLimiter(r)
    \/ \E r \in Requests : Limiter_insert(r)
    \/ \E r \in Requests : Limiter_Allow(r)
    \/ UpdateConfig_Rate
    \/ UpdateConfig_Clear

SpecLimiter == InitLimiter /\ [][NextLimiter]_vars

\* one client over MaxClock ticks, with the sweep
NextSweep ==
    \/ Limiter_Start(1, "10.0.0.1")
    \/ Limiter_getLimiter(1)
    \/ Limiter_refresh(1)
    \/ Limiter_insert(1)
    \/ Limiter_Allow(1)
    \/ Limiter_cleanup
    \/ Limiter_Tick

SpecSweep == InitLimiter /\ [][NextSweep]_vars

\* the buckets that exist and have not been refilled since they were created
FreshBuckets == {i \in BucketIds : lm.heap[i].alive /\ lm.heap[i].fresh}

\* C22: from a newly created bucket and with no refill in between, the
\* requests of one (client_ip, rate, burst) key are forwarded to the next stage
\* exactly burst times and every further one is answered 429 without reaching
\* the next stage; the buckets of other client IPs are unaffected.
C22_BurstThen429 ==
    /\ [](\A i \in FreshBuckets :
            /\ lm.heap[i].admitted <= lm.heap[i].key.burst
            /\ lm.heap[i].admitted + lm.heap[i].tokens = lm.heap[i].key.burst)
    /\ [][\A r \in Requests :
            (lm.reqs[r].pc = "allow" /\ lm'.reqs[r].pc = "done") =>
                LET id == lm.reqs[r].id
                    b  == lm.heap[id]
                IN /\ b.alive /\ b.key = lm.reqs[r].key
                   /\ b.fresh =>
                        /\ lm'.reqs[r].out =
                              IF b.admitted < b.key.burst THEN "next" ELSE "429"
                        /\ lm'.heap[id].admitted =
                              IF b.admitted < b.key.burst
                              THEN b.admitted + 1 ELSE b.admitted
                   /\ \A j \in BucketIds \ {id} : lm'.heap[j] = lm.heap[j]]_vars

C22_Witness ==
    \E r \in Requests, j \in FreshBuckets :
        /\ lm.reqs[r].pc = "done"
        /\ lm.reqs[r].out = "429"
        /\ lm.reqs[r].key.burst = MaxBurst
        /\ lm.heap[lm.reqs[r].id].fresh
        /\ lm.heap[lm.reqs[r].id].admitted = MaxBurst
        /\ lm.heap[j].key.ip # lm.reqs[r].key.ip
        /\ lm.heap[j].admitted = 1
        /\ lm.heap[j].tokens = lm.heap[j].key.burst - 1
        /\ lm.heap[j].tokens >= 1

\* C24: the periodic sweep removes a client bucket only if its key has made
\* no request during the preceding 3 minutes; a key used less than 3 minutes
\* before a sweep keeps its bucket across that sweep. (Stated for the sweeps
\* that run while no request is inside the limiter, so that no request
\* suspended between its lookup and its refresh is involved.)
C24_SweepOnlyIdle ==
    [][\A k \in ClientKeys :
          (/\ lm.clients[k] # 0 /\ lm'.clients[k] = 0
           /\ lm'.updates = lm.updates
           /\ \A r \in Requests : lm.reqs[r].pc \in {"idle", "done"}) =>
              Since(lm.clock, lm.heap[lm.clients[k]].lastUsed)
                  >= 3 * TicksPerMinute]_vars

C32_ProbeLimit ==
    [][(/\ br.state = StateHalfOpen
        /\ br.halfOpenMax = 1
        /\ brOp = "Allow"
        /\ brRet) =>
            ~(brOp' = "Allow" /\ brRet' /\ br'.state = StateHalfOpen)]_vars

\* the failures among the outcomes of the reference window
RefFailures == Cardinality({i \in 1..Len(refWindow) : refWindow[i]})

\* the slot of the ring buffer that holds the k-th most recent outcome
RingSlot(b, k) == (b.head + b.windowSize - k) % b.windowSize

\* C33: in Closed, after n outcomes recorded since the window was last
\* reset, count = min(n, window_size), failures is the number of failures
\* among the most recent count outcomes, and the ring buffer holds exactly
\* those outcomes.
C33_SlidingWindow ==
    br.state = StateClosed =>
        /\ br.count = Len(refWindow)
        /\ br.failures = RefFailures
        /\ \A k \in 1..br.count :
              br.window[RingSlot(br, k)] = refWindow[Len(refWindow) + 1 - k]

C33_Witness ==
    /\ br.state = StateClosed
    /\ brOp = "RecordSuccess"
    /\ br.windowSize > 1
    /\ br.count = br.windowSize
    /\ br.head = 1
    /\ refWindow[1]
    /\ br.failures = 1

\* C34: after Reset() in any state, Closed included, the state is Closed and
\* the window is empty: count = 0, failures = 0 and half_open_successes = 0.
C34_ResetEmptiesWindow ==
    [][brOp' = "Reset" =>
        /\ br'.state = StateClosed
        /\ br'.count = 0
        /\ br'.failures = 0
        /\ br'.halfOpenSuccess = 0]_vars

\* ---- AdaptiveBreaker over the failure-rate breaker ----

\* Config.LatencyCeiling and Config.MinThreshold (percent), and the latencies
\* a recorded outcome may carry, in milliseconds
LatencyCeiling == 10
MinThreshold == 20
Latencies == {5, 10, 30}

\* the configs the stack is built with and reloaded to: they differ in
\* FailureThreshold only
AdaptiveConfigs ==
    [WindowSize : {2}, FailureThreshold : Thresholds, ResetTimeout : {1},
     HalfOpenMax : {1}]

\* NewAdaptiveBreaker(fr, cfg.FailureThreshold, cfg.MinThreshold,
\* cfg.LatencyCeiling, 0.3); configured and updated are history: the
\* threshold of the last config and whether UpdateConfig has been called
NewAdaptiveBreaker(cfg) ==
    [enabled |-> TRUE, ewmaLatency |-> 0, baseThreshold |-> cfg.FailureThreshold,
     configured |-> cfg.FailureThreshold, updated |-> FALSE]

\* a.ewmaLatency after a sample, alpha = 0.3, in whole milliseconds
Ewma(a, latency) ==
    IF a.ewmaLatency = 0 THEN latency
    ELSE (3 * latency + 7 * a.ewmaLatency) \div 10

\* the threshold updateThreshold hands to SetFailureThreshold
AdaptedThreshold(a, ewma) ==
    IF ewma <= LatencyCeiling THEN a.baseThreshold
    ELSE LET over == IF ewma - LatencyCeiling > LatencyCeiling
                     THEN LatencyCeiling ELSE ewma - LatencyCeiling
         IN a.baseThreshold
              - (over * (a.baseThreshold - MinThreshold)) \div LatencyCeiling

\* AdaptiveBreaker.updateThreshold
updateThreshold(b, a, latency) ==
    LET ewma == Ewma(a, latency)
    IN [b |-> SetFailureThreshold(b, AdaptedThreshold(a, ewma)),
        a |-> [a EXCEPT !.ewmaLatency = ewma]]

\* AdaptiveBreaker.RecordSuccess: a.inner.RecordSuccess, a.updateThreshold
Adaptive_RecordSuccess ==
    /\ \E latency \in Latencies :
          LET r == updateThreshold(FailureRateBreaker_RecordSuccess(br, now),
                                   ad, latency)
          IN BreakerStep(r.b, "RecordSuccess", TRUE) /\ ad' = r.a
    /\ UNCHANGED <<now, bhVars, rtVars, dlVars, rlVars, mt, mwVars, bp, ov>>

\* AdaptiveBreaker.RecordFailure: a.inner.RecordFailure, a.updateThreshold
Adaptive_RecordFailure ==
    /\ \E latency \in Latencies :
          LET r == updateThreshold(FailureRateBreaker_RecordFailure(br, now),
                                   ad, latency)
          IN BreakerStep(r.b, "RecordFailure", TRUE) /\ ad' = r.a
    /\ UNCHANGED <<now, bhVars, rtVars, dlVars, rlVars, mt, mwVars, bp, ov>>

\* AdaptiveBreaker.Reset: a.inner.Reset, ewma cleared, base threshold set
Adaptive_Reset ==
    /\ BreakerStep(SetFailureThreshold(FailureRateBreaker_Reset(br, now),
                                       ad.baseThreshold), "Reset", TRUE)
    /\ ad' = [ad EXCEPT !.ewmaLatency = 0]
    /\ UNCHANGED <<now, bhVars, rtVars, dlVars, rlVars, mt, mwVars, bp, ov>>

\* CompositeBreaker.UpdateConfig on a stack with the adaptive layer
Composite_UpdateConfig ==
    /\ \E cfg \in AdaptiveConfigs :
          /\ BreakerStep(CompositeBreaker_UpdateConfig(br, cfg),
                         "UpdateConfig", TRUE)
          /\ ad' = [ad EXCEPT !.configured = cfg.FailureThreshold,
                              !.updated = TRUE]
    /\ UNCHANGED <<now, bhVars, rtVars, dlVars, rlVars, mt, mwVars, bp, ov>>

\* NewComposite with cfg.Adaptive set
InitAdaptive ==
    /\ InitBh /\ InitRt /\ InitDl /\ InitRl /\ InitMt
    /\ pl = NoStages /\ lm = NoLimiter /\ ft = NoCall /\ bp = NoPool
    /\ ov = NoOverlap
    /\ now = 0
    /\ brOp = "New"
    /\ brRet = TRUE
    /\ brFrom = StateClosed
    /\ hoGhost = 0
    /\ refWindow = <<>>
    /\ \E cfg \in AdaptiveConfigs :
          /\ br = NewFailureRateBreaker(cfg.WindowSize, cfg.FailureThreshold,
                                        cfg.ResetTimeout, cfg.HalfOpenMax)
          /\ ad = NewAdaptiveBreaker(cfg)

NextAdaptive ==
    \/ BrAllow
    \/ Adaptive_RecordSuccess
    \/ Adaptive_RecordFailure
    \/ Adaptive_Reset
    \/ Composite_UpdateConfig
    \/ BrTick

SpecAdaptive == InitAdaptive /\ [][NextAdaptive]_vars

\* C35: after CompositeBreaker.UpdateConfig(cfg), every later trip decision
\* taken while the observed latency is at or below the latency ceiling uses
\* cfg.FailureThreshold as its threshold, also with the adaptive layer.
C35_ReloadedThreshold ==
    [][(/\ ad.enabled /\ ad.updated
        /\ ad.ewmaLatency <= LatencyCeiling
        /\ br.state = StateClosed
        /\ brOp' = "RecordFailure") =>
            LET b1 == recordOutcome(br, TRUE)
            IN br'.state = StateOpen <=>
                  /\ b1.count >= b1.windowSize
                  /\ RateAtLeast(failureRate(b1), ad.configured)]_vars

\* ---- the route table in another insertion order ----

\* the tables that hold the routes of t in any order
Reorderings(t) ==
    LET n == Len(t)
    IN {[i \in 1..n |-> t[f[i]]] :
            f \in {g \in [1..n -> 1..n] :
                      \A i, j \in 1..n : i # j => g[i] # g[j]}}

\* C36: for every path, limitsForPath returns the same limits whatever the
\* order in which the routes appear in the route table.
C36_OrderIrrelevant ==
    mt.op = "limitsForPath" =>
        \A t \in Reorderings(mt.routes) :
            limitsForPath(t, mt.path) = mt.limit

\* ---- prefix stripping ----

\* the characters of the path after the prefix
Remainder(path, prefix) ==
    [i \in 1..(Len(path) - Len(prefix)) |-> path[Len(prefix) + i]]

\* the remainder, or "/" when it is empty
RemainderOrRoot(path, prefix) ==
    IF Remainder(path, prefix) = <<>> THEN <<"/">>
    ELSE Remainder(path, prefix)

\* C37 as stated: for a route with strip_prefix and a path it boundary-matches
\* (prefixes ending with "/" included) the path sent to the backend begins
\* with "/": it is the remainder of the path after the prefix, or "/" when
\* the remainder is empty.
C37_StrippedPathRooted ==
    mt.op = "stripPrefix" =>
        /\ mt.match = RemainderOrRoot(mt.path, mt.prefix)
        /\ mt.match[1] = "/"

\* C37, amended: the request path after the strip is the remainder, or "/"
\* when the remainder is empty; it begins with "/" unless the prefix ends
\* with "/" and the remainder is not empty and begins with another
\* character; the reverse proxy joins it to the backend URL's path with a
\* single "/", so the path that goes out begins with "/".
C37_StrippedPath ==
    mt.op = "stripPrefix" =>
        /\ mt.match = RemainderOrRoot(mt.path, mt.prefix)
        /\ mt.match[1] # "/" =>
              /\ mt.prefix[Len(mt.prefix)] = "/"
              /\ Remainder(mt.path, mt.prefix) # <<>>
        /\ mt.prefix[Len(mt.prefix)] # "/" => mt.match[1] = "/"
        /\ \A target \in BackendPaths :
              LET out == singleJoiningSlash(target, mt.match)
              IN /\ out[1] = "/"
                 /\ \/ out = target \o mt.match
                    \/ out = target \o <<"/">> \o mt.match
                    \/ out = target \o Tail(mt.match)

C37_Witness ==
    /\ mt.op = "stripPrefix"
    /\ Len(mt.prefix) > 1
    /\ mt.prefix[Len(mt.prefix)] = "/"
    /\ mt.match = <<"a">>
    /\ singleJoiningSlash(<<>>, mt.match) = <<"/", "a">>

\* ---- the backoff between attempts ----

\* C31: if the request context is cancelled while the retry loop is in its
\* backoff wait, the wait ends at once: the handler sleeps out none of the
\* remaining backoff (during which it would hold its bulkhead slot) and
\* goes on to the cancellation check.
C31_BackoffCancellable ==
    [][(rq.pc = "backoff" /\ rq.impl = "buffered" /\ ctxErr) =>
          /\ rq'.pc = "backoff" => rq'.sleep = rq.sleep
          /\ rq'.pc \in {"backoff", "check"}]_vars

\* ---- responseBufferPool: non-final attempts of concurrent requests ----

PoolRequests == {1, 2}
BufferIds == {1, 2}

\* a request outside the retry loop
NoPoolRequest == [pc |-> "idle", buf |-> 0, status |-> 0, logged |-> 0]

\* an empty sync.Pool; owner is history: the request between Get and Put
NewPool ==
    [pool |-> {},
     statusCode |-> [b \in BufferIds |-> 0],
     owner |-> [b \in BufferIds |-> 0],
     reqs |-> [r \in PoolRequests |-> NoPoolRequest]]

\* the buffers sync.Pool.Get may return: a pooled one, or a new one
Gettable ==
    bp.pool \cup {b \in BufferIds :
                    /\ bp.owner[b] = 0
                    /\ \A r \in PoolRequests : bp.reqs[r].buf # b}

\* what the retry branch does with the buffer before logging: Put
PutBeforeLog(p, b) ==
    [p EXCEPT !.pool = p.pool \cup {b}, !.owner[b] = 0]

\* buf := responseBufferPool.Get().(*responseBuffer)
Pool_Get(r) ==
    /\ bp.reqs[r].pc = "idle"
    /\ \E b \in Gettable :
          bp' = [bp EXCEPT !.pool = bp.pool \ {b},
                           !.owner[b] = r,
                           !.reqs[r].buf = b,
                           !.reqs[r].pc = "reset"]
    /\ UNCHANGED <<now, brVars, bhVars, rtVars, dlVars, rlVars, mt, mwVars, ad, ov>>

\* buf.Reset()
Pool_Reset(r) ==
    /\ bp.reqs[r].pc = "reset"
    /\ bp' = [bp EXCEPT !.statusCode[bp.reqs[r].buf] = 200,
                        !.reqs[r].pc = "proxy"]
    /\ UNCHANGED <<now, brVars, bhVars, rtVars, dlVars, rlVars, mt, mwVars, ad, ov>>

\* proxy.ServeHTTP(buf, rWithCtx), then isRetryable(buf.statusCode)
Pool_Proxy(r) ==
    /\ bp.reqs[r].pc = "proxy"
    /\ \E status \in {200, 502, 503} :
          bp' = [bp EXCEPT !.statusCode[bp.reqs[r].buf] = status,
                           !.reqs[r].status = status,
                           !.reqs[r].pc = IF isRetryable(status)
                                          THEN "retry" ELSE "replay"]
    /\ UNCHANGED <<now, brVars, bhVars, rtVars, dlVars, rlVars, mt, mwVars, ad, ov>>

\* buf.replayTo(recorder); responseBufferPool.Put(buf); break
Pool_Replay(r) ==
    /\ bp.reqs[r].pc = "replay"
    /\ LET b == bp.reqs[r].buf
       IN bp' = [bp EXCEPT !.pool = bp.pool \cup {b},
                           !.owner[b] = 0,
                           !.reqs[r].logged = bp.statusCode[b],
                           !.reqs[r].buf = 0,
                           !.reqs[r].pc = "done"]
    /\ UNCHANGED <<now, brVars, bhVars, rtVars, dlVars, rlVars, mt, mwVars, ad, ov>>

\* the retry branch: responseBufferPool.Put(buf)
Pool_PutRetry(r) ==
    /\ bp.reqs[r].pc = "retry"
    /\ bp' = [PutBeforeLog(bp, bp.reqs[r].buf) EXCEPT !.reqs[r].pc = "log"]
    /\ UNCHANGED <<now, brVars, bhVars, rtVars, dlVars, rlVars, mt, mwVars, ad, ov>>

\* rt.logger.Warn("retrying request", ..., "status", buf.statusCode)
Pool_Log(r) ==
    /\ bp.reqs[r].pc = "log"
    /\ LET b == bp.reqs[r].buf
       IN bp' = [bp EXCEPT !.reqs[r].logged = bp.statusCode[b],
                           !.reqs[r].pc = "done"]
    /\ UNCHANGED <<now, brVars, bhVars, rtVars, dlVars, rlVars, mt, mwVars, ad, ov>>

\* the request is over (or goes on to its final attempt, which uses no
\* buffer); another request arrives on the same connection handler
Pool_Again(r) ==
    /\ bp.reqs[r].pc = "done"
    /\ bp' = [bp EXCEPT !.reqs[r] = NoPoolRequest]
    /\ UNCHANGED <<now, brVars, bhVars, rtVars, dlVars, rlVars, mt, mwVars, ad, ov>>

InitPool ==
    /\ InitBr /\ InitBh /\ InitRt /\ InitDl /\ InitRl /\ InitMt
    /\ br = NewFailureRateBreaker(1, 50, 1, 1)
    /\ pl = NoStages /\ lm = NoLimiter /\ ft = NoCall /\ ad = NoAdaptive
    /\ ov = NoOverlap
    /\ bp = NewPool

NextPool ==
    \/ \E r \in PoolRequests : Pool_Get(r)
    \/ \E r \in PoolRequests : Pool_Reset(r)
    \/ \E r \in PoolRequests : Pool_Proxy(r)
    \/ \E r \in PoolRequests : Pool_Replay(r)
    \/ \E r \in PoolRequests : Pool_PutRetry(r)
    \/ \E r \in PoolRequests : Pool_Log(r)
    \/ \E r \in PoolRequests : Pool_Again(r)

SpecPool == InitPool /\ [][NextPool]_vars

\* C38: a pooled response buffer is owned by exactly one request between its
\* Get and its Put: a request reads or writes a buffer only while it owns
\* it, on the replay path and on the retry path, and so the status it reads
\* from its buffer is the one its own attempt wrote.
C38_BufferOwnership ==
    /\ [][\A r \in PoolRequests :
            (bp.reqs[r].pc \in {"reset", "proxy", "replay", "log"}
                /\ bp'.reqs[r].pc # bp.reqs[r].pc) =>
                    bp.owner[bp.reqs[r].buf] = r]_vars
    /\ [](\A r \in PoolRequests :
            bp.reqs[r].pc = "done" => bp.reqs[r].logged = bp.reqs[r].status)

\* ---- getLimiter: requests that meet at a key the map does not hold ----

\* the requests in flight at once
Racers == 1..(NumRequests + 1)

InitFirstSight ==
    /\ InitBr /\ InitBh /\ InitRt /\ InitDl /\ InitRl /\ InitMt
    /\ br = NewFailureRateBreaker(1, 50, 1, 1)
    /\ pl = NoStages
    /\ ft = NoCall
    /\ InitXt
    /\ \E cfg \in LimitConfigs :
          lm = [NewLimiter(cfg) EXCEPT
                   !.reqs = [r \in Racers |-> NoLimiterRequest]]

\* concurrent requests of two clients; no sweep, no reload, no time passes
NextFirstSight ==
    \/ \E r \in Racers, ip \in ClientIPs : Limiter_Start(r, ip)
    \/ \E r \in Racers : Limiter_getLimiter(r)
    \/ \E r \in Racers : Limiter_insert(r)
    \/ \E r \in Racers : Limiter_Allow(r)

SpecFirstSight == InitFirstSight /\ [][NextFirstSight]_vars

\* the live buckets made for a key
BucketsOf(key) == {i \in BucketIds : lm.heap[i].alive /\ lm.heap[i].key = key}

\* C40: requests with the same (ip, rate, burst) key that arrive while the
\* map has no entry for it end up with one bucket. With no sweep and no
\* reload, a key never has more than one live bucket, every request that
\* holds a bucket holds the one the map has for its key, and a request that
\* reaches the slow path after another one inserted takes that bucket
\* without creating one.
C40_OneBucketPerKey ==
    /\ [](\A k \in ClientKeys : Cardinality(BucketsOf(k)) <= 1)
    /\ [](\A r \in Racers :
            lm.reqs[r].id # 0 => lm.clients[lm.reqs[r].key] = lm.reqs[r].id)
    /\ [][\A r \in Racers :
            (/\ lm.reqs[r].pc = "insert"
             /\ lm.clients[lm.reqs[r].key] # 0
             /\ lm'.reqs[r].pc = "allow") =>
                /\ lm'.reqs[r].id = lm.clients[lm.reqs[r].key]
                /\ lm'.clients = lm.clients]_vars

\* one request is on the slow path, having seen no entry, while another
\* request with the same key has inserted the bucket and drawn from it
C40_Witness ==
    \E r1, r2 \in Racers :
        /\ r1 # r2
        /\ lm.reqs[r1].key = lm.reqs[r2].key
        /\ lm.reqs[r1].pc = "insert"
        /\ lm.reqs[r2].pc = "done"
        /\ lm.reqs[r2].out = "next"
        /\ lm.clients[lm.reqs[r2].key] = lm.reqs[r2].id
        /\ lm.reqs[r2].id # 0

\* ---- Reloader.Reload called from the debounce timer and from SIGHUP ----

\* the goroutines that call Reload: time.AfterFunc's and the signal handler's
Reloaders == {"AfterFunc", "SIGHUP"}

NoReloadCall == [pc |-> "idle", newCfg |-> 0, ok |-> FALSE]

\* NewReloader and main: snapshot 0 is current and configures every component
NewReloader ==
    [current |-> 0, loads |-> 0,
     limiter |-> 0, breakers |-> 0, routesRef |-> 0,
     calls |-> [c \in Reloaders |-> NoReloadCall]]

\* Reload: Load(r.path) returns an error (return false) or a new snapshot
Reloader_Load(c) ==
    /\ ov.calls[c].pc = "idle"
    /\ ov.loads < MaxReloads
    /\ \E err \in BOOLEAN :
          ov' = [ov EXCEPT
                   !.loads = ov.loads + 1,
                   !.calls[c] = IF err THEN NoReloadCall
                                ELSE [pc |-> "swap", newCfg |-> ov.loads + 1,
                                      ok |-> FALSE]]
    /\ UNCHANGED <<now, brVars, bhVars, rtVars, dlVars, rlVars, mt, mwVars, ad, bp>>

\* Reload: r.mu.Lock(); r.current = newCfg; copy the callbacks; r.mu.Unlock()
Reloader_Swap(c) ==
    /\ ov.calls[c].pc = "swap"
    /\ ov' = [ov EXCEPT !.current = ov.calls[c].newCfg,
                        !.calls[c].pc = "limiter"]
    /\ UNCHANGED <<now, brVars, bhVars, rtVars, dlVars, rlVars, mt, mwVars, ad, bp>>

\* Reload: cb(newCfg), outside r.mu. The callback of main reconfigures the
\* limiter, then the breakers, then routesRef; Reload then returns true
Reloader_Callback(c) ==
    /\ \/ /\ ov.calls[c].pc = "limiter"
          /\ ov' = [ov EXCEPT !.limiter = ov.calls[c].newCfg,
                              !.calls[c].pc = "breakers"]
       \/ /\ ov.calls[c].pc = "breakers"
          /\ ov' = [ov EXCEPT !.breakers = ov.calls[c].newCfg,
                              !.calls[c].pc = "routesRef"]
       \/ /\ ov.calls[c].pc = "routesRef"
          /\ ov' = [ov EXCEPT !.routesRef = ov.calls[c].newCfg,
                              !.calls[c] = [pc |-> "idle", newCfg |-> 0,
                                            ok |-> TRUE]]
    /\ UNCHANGED <<now, brVars, bhVars, rtVars, dlVars, rlVars, mt, mwVars, ad, bp>>

InitOverlap ==
    /\ InitBr /\ InitBh /\ InitRt /\ InitDl /\ InitRl /\ InitMt
    /\ br = NewFailureRateBreaker(1, 50, 1, 1)
    /\ pl = NoStages /\ lm = NoLimiter /\ ft = NoCall
    /\ ad = NoAdaptive /\ bp = NoPool
    /\ ov = NewReloader

NextOverlap ==
    \/ \E c \in Reloaders : Reloader_Load(c)
    \/ \E c \in Reloaders : Reloader_Swap(c)
    \/ \E c \in Reloaders : Reloader_Callback(c)

SpecOverlap == InitOverlap /\ [][NextOverlap]_vars

\* C39: when the timer's Reload and the signal handler's Reload have both
\* succeeded and returned, the limiter, the breakers and routesRef are
\* configured from the snapshot that Current() returns.
C39_CallbacksMatchCurrent ==
    (\A c \in Reloaders : ov.calls[c].pc = "idle" /\ ov.calls[c].ok) =>
        /\ ov.limiter = ov.current
        /\ ov.breakers = ov.current
        /\ ov.routesRef = ov.current

====
